---- MODULE Spec2Model ----
(***************************************************************************)
(* Model of the hci-log-interaction capture pipeline:                      *)
(*   - EventBasedScreenshotTracker (the trigger gate),                      *)
(*     src/hci_logger/trackers/event_screenshot_tracker.py                  *)
(*   - MouseTracker (the pointer source),                                   *)
(*     src/hci_logger/trackers/mouse_tracker.py                             *)
(*   - HCILoggerWindow (the recording coordinator, its event buffer and     *)
(*     the store), src/main.py and src/hci_logger/storage/database.py       *)
(* Each component has its own next-state relation; the variables of the     *)
(* other components stay as constructed.                                    *)
(***************************************************************************)
EXTENDS Integers, Sequences, FiniteSets, Bags, TLC

(***************************************************************************)
(* Parameters of the model.  scroll_threshold, cooldown and                 *)
(* movement_threshold are constructor arguments of the trackers (defaults   *)
(* 100, 0.5 s and 5); scroll_threshold and cooldown are instantiated with   *)
(* small values, movement_threshold is the 5 that main.py passes.  Time is  *)
(* counted in ticks of the clock read by time.time().                       *)
(***************************************************************************)
scroll_threshold == 3
cooldown == 2
MaxTime == 5
MaxCalls == 3
movement_threshold == 5
MaxCoord == 7
MaxNotifications == 4
\* _BUFFER_SIZE of HCILoggerWindow (50 in main.py), instantiated small
BUFFER_SIZE == 3
MaxEvents == 5
MaxChunks == 1
MaxSamples == 1
MaxFailures == 1
MaxStops == 2
MaxSignals == 2
MaxDemoEvents == 1
MaxRows == 3

Threads == {"t1", "t2"}
Free == "free"

Abs(v) == IF v < 0 THEN -v ELSE v

VARIABLES
    \* EventBasedScreenshotTracker
    running, screenshots_captured, last_screenshot_time,
    scroll_accumulator_x, scroll_accumulator_y, lock,
    \* threads inside on_mouse_event: position, event, locals
    pc, event, current_time, total_scroll,
    \* the clock, and the history of the gate: calls of on_mouse_event, scroll
    \* accumulated, triggers arrived and decided, captures attempted and made
    now, calls, scroll_sum, trigger_log, capture_log, arrived, attempts

gateVars == <<running, screenshots_captured, last_screenshot_time,
              scroll_accumulator_x, scroll_accumulator_y, lock,
              pc, event, current_time, total_scroll,
              now, calls, scroll_sum, trigger_log, capture_log, arrived, attempts>>

VARIABLES
    \* MouseTracker
    listener, last_position, events_captured,
    \* history: the events handed to on_event_callback, the raw notifications
    emitted, notified

mouseVars == <<listener, last_position, events_captured, emitted, notified>>

VARIABLES
    \* HCILoggerWindow and its Database
    db_conn, session_id, session_status, is_recording, stopping,
    event_buffer, buffer_lock,
    \* the trackers of the session, as the coordinator sees them
    mouse_listening, shot_running,
    audio_stream, audio_running, current_segment, audio_buffer,
    emotion_running,
    \* the threads: coordinator, pointer listener, audio writer, emotion loop
    pc_coord, pc_listener, cur_event, batch_to_write,
    pc_writer, cur_segment, pc_emotion,
    \* history: rows committed to the store, events appended, batches drained,
    \* chunks and samples produced
    store, appended, drained, chunks, samples

sessionVars == <<db_conn, session_id, session_status, is_recording, stopping,
                 event_buffer, buffer_lock,
                 mouse_listening, shot_running,
                 audio_stream, audio_running, current_segment, audio_buffer,
                 emotion_running,
                 pc_coord, pc_listener, cur_event, batch_to_write,
                 pc_writer, cur_segment, pc_emotion,
                 store, appended, drained, chunks, samples>>

VARIABLES
    \* history of the gate: the timestamps of the captures that raised
    capture_failures

gateHist == <<capture_failures>>

VARIABLES
    \* history of the pointer pipeline: the raw notifications pynput delivered
    inputs

pipeVars == <<inputs>>

VARIABLES
    \* history of the session's worker threads: the segments handed to
    \* on_segment_callback, the failures met by the emotion loop, the pointer
    \* events in the order insert_mouse_events_batch inserted them
    segments_emitted, emotion_failures, inserted

sessionHist == <<segments_emitted, emotion_failures, inserted>>

VARIABLES
    \* a caller of the four trackers alone: the stop() calls that have
    \* returned, per tracker, and the join the caller waits in
    stop_calls, client

unitVars == <<stop_calls, client>>

VARIABLES
    \* SimpleTrackingDemo and its Database: the calls in progress on the main
    \* thread (the SIGINT handler runs on top of the code it interrupts), the
    \* connection, the session row, the tracker, the event buffer
    demo_stack, demo_state, demo_conn, demo_status, demo_listening,
    demo_buffer,
    \* history: events written, end_session calls made, SIGINTs delivered
    demo_stored, end_sessions, signals

demoVars == <<demo_stack, demo_state, demo_conn, demo_status, demo_listening,
              demo_buffer, demo_stored, end_sessions, signals>>

VARIABLES
    \* Database: the rows of its tables in rowid order, the call each thread
    \* is in and the rows that call has written,
    table, call, call_rows,
    \* the last read: its arguments, the rows it returned and the number of
    \* rows the tables held when it ran
    read_result,
    \* history: the rows whose call has returned
    returned

storeVars == <<table, call, call_rows, read_result, returned>>

VARIABLES
    \* HeatmapOverlayGenerator.generate_all_overlays: its arguments, the paths
    \* that exist as files, the number of frames the loop has taken and the
    \* list it builds,
    screenshots, all_events, time_window, files, frame_index,
    generated_overlays, overlay_pc,
    \* history: per frame taken, the events handed to
    \* generate_overlay_for_screenshot and how that call ended
    passed, results

overlayVars == <<screenshots, all_events, time_window, files, frame_index,
                 generated_overlays, overlay_pc, passed, results>>

VARIABLES
    \* _create_heatmap_array: its arguments, the number of coordinates the
    \* loop has taken, the grid of counts, the smoothed grid and the grid
    \* returned
    coordinates, blur_radius, heat_pc, points_done, heatmap, heatmap_blurred,
    heatmap_returned

heatVars == <<coordinates, blur_radius, heat_pc, points_done, heatmap,
              heatmap_blurred, heatmap_returned>>

\* the report generation
processingVars == <<overlayVars, heatVars>>

VARIABLES
    \* EmotionTracker._analyze_frame: the classifier's 'emotion' dict, the
    \* scores of the emotion_data it returns, and where the call stands
    emotions, emotion_data, analyze_pc

scoreVars == <<emotions, emotion_data, analyze_pc>>

VARIABLES
    \* the artifact files of one session: the time, the gate's
    \* last_screenshot_time, the audio tracker's segment_start_time and
    \* whether its stream runs, and, as history, the path of every file
    \* written, in order
    wall_time, last_capture_time, segment_start_time, stream_open, written

nameVars == <<wall_time, last_capture_time, segment_start_time, stream_open, written>>

VARIABLES
    \* HCILoggerWindow over several sessions: its session_id, is_recording,
    \* _event_buffer, whether the Database is connected and where the
    \* coordinator stands,
    logger_window,
    \* the MouseTracker of each session: its listener, its events_captured
    \* and the _on_mouse_event call its listener thread is in,
    mouse_trackers,
    \* history: every mouse row inserted, with the session recording at that
    \* moment, and the buffer each _start_session found
    mouse_rows, buffer_at_start

restartVars == <<logger_window, mouse_trackers, mouse_rows, buffer_at_start>>

VARIABLES
    \* one AudioTracker with its clock: the time, the tracker's running,
    \* stream, segment_start_time, current_segment and audio_buffer, where
    \* stop() and the writer thread stand and the segment the writer holds,
    audio_clock, audio_tracker, audio_writer,
    \* history: the number of chunks delivered to _audio_callback and the
    \* segments handed to on_segment_callback, in order
    delivered, audio_segments

audioVars == <<audio_clock, audio_tracker, audio_writer, delivered, audio_segments>>

VARIABLES
    \* the axes of the figure create_comparison_grid fills: the image shown
    \* in each cell <<row, column>>
    axes

gridVars == <<axes>>

VARIABLES
    \* ReportDialog._make_overlay_pixmap: the logical screen size of the
    \* session (the space of the pointer coordinates), the screenshot row with
    \* the size of its image file, the mouse events of the session, where the
    \* call stands, and what it has drawn
    logical_screen, screenshot_info, mouse_events, pixmap_pc, drawn

dialogVars == <<logical_screen, screenshot_info, mouse_events, pixmap_pc, drawn>>

\* the components modelled on their own beside the recording
laterVars == <<restartVars, audioVars, gridVars, dialogVars>>

\* the store, the report generation, the scores and the artifact files
baseVars == <<storeVars, processingVars, scoreVars, nameVars>>

\* all that is beside the recording
restVars == <<baseVars, laterVars>>

vars == <<gateVars, gateHist, mouseVars, sessionVars, sessionHist, pipeVars,
          unitVars, demoVars, restVars>>

\* what the actions of one component leave alone
outsideGate == <<mouseVars, sessionVars, sessionHist, pipeVars, unitVars, demoVars,
                 restVars>>
outsideMouse == <<gateVars, gateHist, sessionVars, sessionHist, pipeVars, unitVars,
                  demoVars, restVars>>
outsideSession == <<gateVars, gateHist, mouseVars, pipeVars, unitVars, demoVars,
                    restVars>>
outsidePipeline == <<gateHist, sessionVars, sessionHist, unitVars, demoVars, restVars>>
outsideDemo == <<gateVars, gateHist, mouseVars, sessionVars, sessionHist, pipeVars,
                 unitVars, restVars>>
\* the whole recording
recordingVars == <<gateVars, gateHist, mouseVars, sessionVars, sessionHist, pipeVars,
                   unitVars, demoVars>>
outsideStore == <<recordingVars, processingVars, scoreVars, nameVars, laterVars>>
outsideOverlay == <<recordingVars, storeVars, heatVars, scoreVars, nameVars, laterVars>>
outsideHeat == <<recordingVars, storeVars, overlayVars, scoreVars, nameVars, laterVars>>
outsideScore == <<recordingVars, storeVars, processingVars, nameVars, laterVars>>
outsideNames == <<recordingVars, storeVars, processingVars, scoreVars, laterVars>>
outsideRestart == <<recordingVars, baseVars, audioVars, gridVars, dialogVars>>
outsideAudio == <<recordingVars, baseVars, restartVars, gridVars, dialogVars>>
outsideGrid == <<recordingVars, storeVars, heatVars, scoreVars, nameVars, restartVars, audioVars,
                 dialogVars>>
outsideDialog == <<recordingVars, baseVars, restartVars, audioVars, gridVars>>

(***************************************************************************)
(* The events a caller hands to on_mouse_event.                             *)
(***************************************************************************)
ScrollDeltasX == {0, 1}
ScrollDeltasY == {-2, 0, 1}
Position == [x |-> 5, y |-> 7]
NoEvent == [event_type |-> "none", pressed |-> FALSE, x |-> 0, y |-> 0,
            scroll_dx |-> 0, scroll_dy |-> 0]
MouseEvents ==
    {[event_type |-> "move", pressed |-> FALSE, x |-> Position.x, y |-> Position.y,
      scroll_dx |-> 0, scroll_dy |-> 0]}
    \cup {[event_type |-> "click", pressed |-> p, x |-> Position.x, y |-> Position.y,
           scroll_dx |-> 0, scroll_dy |-> 0] : p \in BOOLEAN}
    \cup {[event_type |-> "scroll", pressed |-> FALSE, x |-> Position.x, y |-> Position.y,
           scroll_dx |-> dx, scroll_dy |-> dy] : dx \in ScrollDeltasX, dy \in ScrollDeltasY}

(***************************************************************************)
(* EventBasedScreenshotTracker.__init__                                     *)
(***************************************************************************)
InitGate ==
    /\ running = FALSE
    /\ screenshots_captured = 0
    /\ last_screenshot_time = 0
    /\ scroll_accumulator_x = 0
    /\ scroll_accumulator_y = 0
    /\ lock = Free
    /\ pc = [t \in Threads |-> "idle"]
    /\ event = [t \in Threads |-> NoEvent]
    /\ current_time = [t \in Threads |-> 0]
    /\ total_scroll = [t \in Threads |-> 0]
    /\ now = cooldown
    /\ calls = 0
    /\ scroll_sum = 0
    /\ trigger_log = <<>>
    /\ capture_log = <<>>
    /\ arrived = 0
    /\ attempts = 0
    /\ capture_failures = <<>>

\* time.time() advances
Tick ==
    /\ now < MaxTime
    /\ now' = now + 1
    /\ UNCHANGED <<running, screenshots_captured, last_screenshot_time,
                   scroll_accumulator_x, scroll_accumulator_y, lock,
                   pc, event, current_time, total_scroll,
                   calls, scroll_sum, trigger_log, capture_log, arrived, attempts>>
    /\ UNCHANGED <<gateHist, outsideGate>>

\* start()
Start ==
    /\ running = FALSE
    /\ running' = TRUE
    /\ UNCHANGED <<screenshots_captured, last_screenshot_time,
                   scroll_accumulator_x, scroll_accumulator_y, lock,
                   pc, event, current_time, total_scroll,
                   now, calls, scroll_sum, trigger_log, capture_log, arrived, attempts>>
    /\ UNCHANGED <<gateHist, outsideGate>>

\* stop()
Stop ==
    /\ running = TRUE
    /\ running' = FALSE
    /\ UNCHANGED <<screenshots_captured, last_screenshot_time,
                   scroll_accumulator_x, scroll_accumulator_y, lock,
                   pc, event, current_time, total_scroll,
                   now, calls, scroll_sum, trigger_log, capture_log, arrived, attempts>>
    /\ UNCHANGED <<gateHist, outsideGate>>

\* a dispatch that does not test self.running
OnMouseEventTargetAlways(e) ==
    IF e.event_type = "click" /\ e.pressed THEN "coe_time"
    ELSE IF e.event_type = "scroll" THEN "acc_lock"
    ELSE "idle"

\* on_mouse_event: the running test and the dispatch on the event type
OnMouseEventTarget(e) ==
    IF ~running THEN "idle"
    ELSE IF e.event_type = "click" /\ e.pressed THEN "coe_time"
    ELSE IF e.event_type = "scroll" THEN "acc_lock"
    ELSE "idle"

\* on_mouse_event entered by thread t with event e
OnMouseEventBody(t, e) ==
    /\ pc[t] = "idle"
    /\ calls < MaxCalls
    /\ calls' = calls + 1
    /\ LET target == OnMouseEventTarget(e)
       IN /\ pc' = [pc EXCEPT ![t] = target]
          /\ event' = [event EXCEPT ![t] = IF target = "idle" THEN NoEvent ELSE e]
          /\ arrived' = IF target = "coe_time" THEN arrived + 1 ELSE arrived
    /\ UNCHANGED <<running, screenshots_captured, last_screenshot_time,
                   scroll_accumulator_x, scroll_accumulator_y, lock,
                   current_time, total_scroll,
                   now, scroll_sum, trigger_log, capture_log, attempts>>

OnMouseEvent(t, e) ==
    /\ OnMouseEventBody(t, e)
    /\ UNCHANGED <<gateHist, outsideGate>>

\* _accumulate_scroll entered without taking the lock
AccumulateAcquireNoLock(t) ==
    /\ pc[t] = "acc_lock"
    /\ pc' = [pc EXCEPT ![t] = "acc_body"]
    /\ UNCHANGED <<running, screenshots_captured, last_screenshot_time,
                   scroll_accumulator_x, scroll_accumulator_y, lock,
                   event, current_time, total_scroll,
                   now, calls, scroll_sum, trigger_log, capture_log, arrived, attempts>>
    /\ UNCHANGED <<gateHist, outsideGate>>

\* _accumulate_scroll: "with self.lock" (threading.Lock, not reentrant)
AccumulateAcquire(t) ==
    /\ pc[t] = "acc_lock"
    /\ lock = Free
    /\ lock' = t
    /\ pc' = [pc EXCEPT ![t] = "acc_body"]
    /\ UNCHANGED <<running, screenshots_captured, last_screenshot_time,
                   scroll_accumulator_x, scroll_accumulator_y,
                   event, current_time, total_scroll,
                   now, calls, scroll_sum, trigger_log, capture_log, arrived, attempts>>
    /\ UNCHANGED <<gateHist, outsideGate>>

\* the threshold test of _accumulate_scroll
ThresholdReached(total) == total >= scroll_threshold

\* _accumulate_scroll: the body under the lock.  When the threshold is
\* reached _capture_on_event is called with the lock still held.
AccumulateScroll(t) ==
    /\ pc[t] = "acc_body"
    /\ LET ax == scroll_accumulator_x + Abs(event[t].scroll_dx)
           ay == scroll_accumulator_y + Abs(event[t].scroll_dy)
           total == Abs(ax) + Abs(ay)
       IN /\ scroll_sum' = scroll_sum + Abs(event[t].scroll_dx) + Abs(event[t].scroll_dy)
          /\ IF ThresholdReached(total)
             THEN /\ scroll_accumulator_x' = 0
                  /\ scroll_accumulator_y' = 0
                  /\ total_scroll' = [total_scroll EXCEPT ![t] = total]
                  /\ pc' = [pc EXCEPT ![t] = "coe_time"]
                  /\ arrived' = arrived + 1
                  /\ UNCHANGED <<lock, event>>
             ELSE /\ scroll_accumulator_x' = ax
                  /\ scroll_accumulator_y' = ay
                  /\ lock' = Free
                  /\ pc' = [pc EXCEPT ![t] = "idle"]
                  /\ event' = [event EXCEPT ![t] = NoEvent]
                  /\ UNCHANGED <<total_scroll, arrived>>
    /\ UNCHANGED <<running, screenshots_captured, last_screenshot_time,
                   current_time, now, calls, trigger_log, capture_log, attempts>>
    /\ UNCHANGED <<gateHist, outsideGate>>

\* _capture_on_event: current_time = time.time()
ReadTime(t) ==
    /\ pc[t] = "coe_time"
    /\ current_time' = [current_time EXCEPT ![t] = now]
    /\ pc' = [pc EXCEPT ![t] = "coe_lock"]
    /\ UNCHANGED <<running, screenshots_captured, last_screenshot_time,
                   scroll_accumulator_x, scroll_accumulator_y, lock,
                   event, total_scroll,
                   now, calls, scroll_sum, trigger_log, capture_log, arrived, attempts>>
    /\ UNCHANGED <<gateHist, outsideGate>>

\* _capture_on_event: "with self.lock".  A thread that already holds the
\* lock (the scroll path) waits for itself: the step is never enabled.
CooldownAcquire(t) ==
    /\ pc[t] = "coe_lock"
    /\ lock = Free
    /\ lock' = t
    /\ pc' = [pc EXCEPT ![t] = "coe_check"]
    /\ UNCHANGED <<running, screenshots_captured, last_screenshot_time,
                   scroll_accumulator_x, scroll_accumulator_y,
                   event, current_time, total_scroll,
                   now, calls, scroll_sum, trigger_log, capture_log, arrived, attempts>>
    /\ UNCHANGED <<gateHist, outsideGate>>

\* the cooldown test with the comparison turned round
InCooldownInverted(ct, last) == (ct - last) > cooldown

\* the cooldown test of _capture_on_event
InCooldown(ct, last) == (ct - last) < cooldown

\* a cooldown check that keeps a trigger in cooldown for a later retry
\* instead of dropping it
CooldownCheckQueued(t) ==
    /\ pc[t] = "coe_check"
    /\ lock' = Free
    /\ IF (current_time[t] - last_screenshot_time) < cooldown
       THEN /\ trigger_log' = Append(trigger_log,
                 [kind |-> event[t].event_type, time |-> current_time[t], fired |-> FALSE])
            /\ pc' = [pc EXCEPT ![t] = "coe_time"]
            /\ UNCHANGED <<event, current_time, total_scroll, last_screenshot_time>>
       ELSE /\ trigger_log' = Append(trigger_log,
                 [kind |-> event[t].event_type, time |-> current_time[t], fired |-> TRUE])
            /\ last_screenshot_time' = current_time[t]
            /\ pc' = [pc EXCEPT ![t] = "capture"]
            /\ UNCHANGED <<event, current_time, total_scroll>>
    /\ UNCHANGED <<running, screenshots_captured,
                   scroll_accumulator_x, scroll_accumulator_y,
                   now, calls, scroll_sum, capture_log, arrived, attempts>>
    /\ UNCHANGED <<gateHist, outsideGate>>

\* _capture_on_event: the cooldown check under the lock; the trigger is
\* dropped (return) or last_screenshot_time is set and the capture follows
CooldownCheck(t) ==
    /\ pc[t] = "coe_check"
    /\ lock' = Free
    /\ IF InCooldown(current_time[t], last_screenshot_time)
       THEN /\ trigger_log' = Append(trigger_log,
                 [kind |-> event[t].event_type, time |-> current_time[t], fired |-> FALSE])
            /\ pc' = [pc EXCEPT ![t] = "idle"]
            /\ event' = [event EXCEPT ![t] = NoEvent]
            /\ current_time' = [current_time EXCEPT ![t] = 0]
            /\ total_scroll' = [total_scroll EXCEPT ![t] = 0]
            /\ UNCHANGED last_screenshot_time
       ELSE /\ trigger_log' = Append(trigger_log,
                 [kind |-> event[t].event_type, time |-> current_time[t], fired |-> TRUE])
            /\ last_screenshot_time' = current_time[t]
            /\ pc' = [pc EXCEPT ![t] = "capture"]
            /\ UNCHANGED <<event, current_time, total_scroll>>
    /\ UNCHANGED <<running, screenshots_captured,
                   scroll_accumulator_x, scroll_accumulator_y,
                   now, calls, scroll_sum, capture_log, arrived, attempts>>
    /\ UNCHANGED <<gateHist, outsideGate>>

\* _capture_screenshot: grab the display image (start of the try block)
CaptureGrab(t) ==
    /\ pc[t] = "capture"
    /\ pc' = [pc EXCEPT ![t] = "capture_save"]
    /\ attempts' = attempts + 1
    /\ UNCHANGED <<running, screenshots_captured, last_screenshot_time,
                   scroll_accumulator_x, scroll_accumulator_y, lock,
                   event, current_time, total_scroll,
                   now, calls, scroll_sum, trigger_log, capture_log, arrived>>
    /\ UNCHANGED <<gateHist, outsideGate>>

\* the record _capture_screenshot hands to on_screenshot_callback
ScreenshotInfo(t) ==
    [timestamp |-> current_time[t],
     trigger_event_type |-> event[t].event_type,
     trigger_x |-> event[t].x,
     trigger_y |-> event[t].y]

\* a capture whose failure also stops the tracker
CaptureSaveHalts(t, ok) ==
    /\ pc[t] = "capture_save"
    /\ IF ok
       THEN /\ capture_log' = Append(capture_log, ScreenshotInfo(t))
            /\ screenshots_captured' = screenshots_captured + 1
            /\ UNCHANGED <<capture_failures, running>>
       ELSE /\ capture_failures' = Append(capture_failures, current_time[t])
            /\ running' = FALSE
            /\ UNCHANGED <<capture_log, screenshots_captured>>
    /\ pc' = [pc EXCEPT ![t] = "idle"]
    /\ event' = [event EXCEPT ![t] = NoEvent]
    /\ current_time' = [current_time EXCEPT ![t] = 0]
    /\ total_scroll' = [total_scroll EXCEPT ![t] = 0]
    /\ UNCHANGED <<last_screenshot_time,
                   scroll_accumulator_x, scroll_accumulator_y, lock,
                   now, calls, scroll_sum, trigger_log, arrived, attempts>>
    /\ UNCHANGED outsideGate

\* a capture whose failure gives the cooldown back
CaptureSaveRestores(t, ok) ==
    /\ pc[t] = "capture_save"
    /\ IF ok
       THEN /\ capture_log' = Append(capture_log, ScreenshotInfo(t))
            /\ screenshots_captured' = screenshots_captured + 1
            /\ UNCHANGED <<capture_failures, last_screenshot_time>>
       ELSE /\ capture_failures' = Append(capture_failures, current_time[t])
            /\ last_screenshot_time' = 0
            /\ UNCHANGED <<capture_log, screenshots_captured>>
    /\ pc' = [pc EXCEPT ![t] = "idle"]
    /\ event' = [event EXCEPT ![t] = NoEvent]
    /\ current_time' = [current_time EXCEPT ![t] = 0]
    /\ total_scroll' = [total_scroll EXCEPT ![t] = 0]
    /\ UNCHANGED <<running,
                   scroll_accumulator_x, scroll_accumulator_y, lock,
                   now, calls, scroll_sum, trigger_log, arrived, attempts>>
    /\ UNCHANGED outsideGate

\* _capture_screenshot: encode, write, call on_screenshot_callback and count;
\* any exception (ok = FALSE) is caught and the method returns False
CaptureSave(t, ok) ==
    /\ pc[t] = "capture_save"
    /\ IF ok
       THEN /\ capture_log' = Append(capture_log, ScreenshotInfo(t))
            /\ screenshots_captured' = screenshots_captured + 1
            /\ UNCHANGED capture_failures
       ELSE /\ capture_failures' = Append(capture_failures, current_time[t])
            /\ UNCHANGED <<capture_log, screenshots_captured>>
    /\ pc' = [pc EXCEPT ![t] = "idle"]
    /\ event' = [event EXCEPT ![t] = NoEvent]
    /\ current_time' = [current_time EXCEPT ![t] = 0]
    /\ total_scroll' = [total_scroll EXCEPT ![t] = 0]
    /\ UNCHANGED <<running, last_screenshot_time,
                   scroll_accumulator_x, scroll_accumulator_y, lock,
                   now, calls, scroll_sum, trigger_log, arrived, attempts>>
    /\ UNCHANGED outsideGate

(***************************************************************************)
(* MouseTracker                                                             *)
(***************************************************************************)
None == "None"
\* raw pointer coordinates: distances below, at and above the threshold
CoordsX == {0, 1, MaxCoord - 1, MaxCoord}
CoordsY == {0, MaxCoord}
Buttons == {"left"}

\* MouseTracker.__init__
InitMouse ==
    /\ listener = "none"
    /\ last_position = <<0, 0>>
    /\ events_captured = 0
    /\ emitted = <<>>
    /\ notified = [move |-> 0, click |-> 0, scroll |-> 0, raw |-> <<>>]

\* start(): the pynput listener thread is created and started
MouseStart ==
    /\ listener = "none"
    /\ listener' = "running"
    /\ UNCHANGED <<last_position, events_captured, emitted, notified>>
    /\ UNCHANGED outsideMouse

\* stop(): listener.stop() if there is a listener
MouseStop ==
    /\ listener # "none"
    /\ listener' = "stopped"
    /\ UNCHANGED <<last_position, events_captured, emitted, notified>>
    /\ UNCHANGED outsideMouse

Notifications == notified.move + notified.click + notified.scroll

\* the throttle test with >= for >
MoveExceedsOrEqual(dx, dy) == dx >= movement_threshold \/ dy >= movement_threshold

\* the throttle test of _on_move
MoveExceeds(dx, dy) == dx > movement_threshold \/ dy > movement_threshold

MoveEvent(x, y) ==
    [event_type |-> "move", x |-> x, y |-> y, button |-> None, pressed |-> None,
     scroll_dx |-> None, scroll_dy |-> None]

\* a move handler that emits every move
OnMoveUnthrottled(x, y, cb_ok) ==
    /\ listener = "running"
    /\ Notifications < MaxNotifications
    /\ notified' = [notified EXCEPT !.move = @ + 1, !.raw = Append(@, <<x, y>>)]
    /\ emitted' = Append(emitted, MoveEvent(x, y))
    /\ last_position' = <<x, y>>
    /\ events_captured' = events_captured + 1
    /\ UNCHANGED listener

\* a move handler that compares each move with the move before it
OnMoveFiltered(x, y, cb_ok) ==
    /\ listener = "running"
    /\ Notifications < MaxNotifications
    /\ notified' = [notified EXCEPT !.move = @ + 1, !.raw = Append(@, <<x, y>>)]
    /\ LET dx == Abs(x - last_position[1])
           dy == Abs(y - last_position[2])
       IN IF MoveExceeds(dx, dy)
          THEN /\ emitted' = Append(emitted, MoveEvent(x, y))
               /\ events_captured' = events_captured + 1
          ELSE UNCHANGED <<emitted, events_captured>>
    /\ last_position' = <<x, y>>
    /\ UNCHANGED listener

\* _on_move.  The callback runs before _last_position is set; if it raises
\* (cb_ok = FALSE) the exception leaves _on_move and ends the listener thread.
OnMoveBody(x, y, cb_ok) ==
    /\ listener = "running"
    /\ Notifications < MaxNotifications
    /\ notified' = [notified EXCEPT !.move = @ + 1, !.raw = Append(@, <<x, y>>)]
    /\ LET dx == Abs(x - last_position[1])
           dy == Abs(y - last_position[2])
       IN IF MoveExceeds(dx, dy)
          THEN /\ emitted' = Append(emitted, MoveEvent(x, y))
               /\ IF cb_ok
                  THEN /\ last_position' = <<x, y>>
                       /\ events_captured' = events_captured + 1
                       /\ UNCHANGED listener
                  ELSE /\ listener' = "stopped"
                       /\ UNCHANGED <<last_position, events_captured>>
          ELSE UNCHANGED <<emitted, last_position, events_captured, listener>>

\* _on_move as the only activity
OnMove(x, y, cb_ok) ==
    /\ OnMoveBody(x, y, cb_ok)
    /\ UNCHANGED outsideMouse

ClickEvent(x, y, button, pressed) ==
    [event_type |-> "click", x |-> x, y |-> y, button |-> button, pressed |-> pressed,
     scroll_dx |-> None, scroll_dy |-> None]

\* a click handler throttled by distance like a move
OnClickThrottled(x, y, button, pressed, cb_ok) ==
    /\ listener = "running"
    /\ Notifications < MaxNotifications
    /\ notified' = [notified EXCEPT !.click = @ + 1]
    /\ IF MoveExceeds(Abs(x - last_position[1]), Abs(y - last_position[2]))
       THEN /\ emitted' = Append(emitted, ClickEvent(x, y, button, pressed))
            /\ last_position' = <<x, y>>
            /\ events_captured' = events_captured + 1
       ELSE UNCHANGED <<emitted, last_position, events_captured>>
    /\ UNCHANGED listener
    /\ UNCHANGED outsideMouse

\* _on_click
OnClickBody(x, y, button, pressed, cb_ok) ==
    /\ listener = "running"
    /\ Notifications < MaxNotifications
    /\ notified' = [notified EXCEPT !.click = @ + 1]
    /\ emitted' = Append(emitted, ClickEvent(x, y, button, pressed))
    /\ IF cb_ok
       THEN /\ events_captured' = events_captured + 1
            /\ UNCHANGED listener
       ELSE /\ listener' = "stopped"
            /\ UNCHANGED events_captured
    /\ UNCHANGED last_position

\* _on_click as the only activity
OnClick(x, y, button, pressed, cb_ok) ==
    /\ OnClickBody(x, y, button, pressed, cb_ok)
    /\ UNCHANGED outsideMouse

\* float(d) if d else None
ScrollField(d) == IF d # 0 THEN d ELSE None

ScrollEvent(x, y, dx, dy) ==
    [event_type |-> "scroll", x |-> x, y |-> y, button |-> None, pressed |-> None,
     scroll_dx |-> ScrollField(dx), scroll_dy |-> ScrollField(dy)]

\* _on_scroll
OnScrollBody(x, y, dx, dy, cb_ok) ==
    /\ listener = "running"
    /\ Notifications < MaxNotifications
    /\ notified' = [notified EXCEPT !.scroll = @ + 1]
    /\ emitted' = Append(emitted, ScrollEvent(x, y, dx, dy))
    /\ IF cb_ok
       THEN /\ events_captured' = events_captured + 1
            /\ UNCHANGED listener
       ELSE /\ listener' = "stopped"
            /\ UNCHANGED events_captured
    /\ UNCHANGED last_position

\* _on_scroll as the only activity
OnScroll(x, y, dx, dy, cb_ok) ==
    /\ OnScrollBody(x, y, dx, dy, cb_ok)
    /\ UNCHANGED outsideMouse

NextMouse ==
    \/ MouseStart
    \/ MouseStop
    \/ \E x \in CoordsX, y \in CoordsY, cb_ok \in BOOLEAN : OnMove(x, y, cb_ok)
    \/ \E b \in Buttons, p \in BOOLEAN, cb_ok \in BOOLEAN :
           OnClick(MaxCoord, 0, b, p, cb_ok)
    \/ \E dy \in {-1, 0}, cb_ok \in BOOLEAN :
           OnScroll(MaxCoord, 0, 0, dy, cb_ok)

(***************************************************************************)
(* HCILoggerWindow: the recording coordinator, the mouse buffer, the store  *)
(* and the threads of the trackers.  The screenshot gate is seen here by    *)
(* the outcome of one on_mouse_event call; the session is session 1.        *)
(***************************************************************************)
\* a committed write of the Database: late records that the session was
\* already marked completed when the rows were inserted
Write(kind, rows, via) ==
    [kind |-> kind, rows |-> rows, session |-> session_id, via |-> via,
     late |-> session_status = "completed"]

\* HCILoggerWindow.__init__
InitSession ==
    /\ db_conn = "none"
    /\ session_id = 0
    /\ session_status = "none"
    /\ is_recording = FALSE
    /\ stopping = FALSE
    /\ event_buffer = <<>>
    /\ buffer_lock = Free
    /\ mouse_listening = "none"
    /\ shot_running = FALSE
    /\ audio_stream = FALSE
    /\ audio_running = FALSE
    /\ current_segment = <<>>
    /\ audio_buffer = <<>>
    /\ emotion_running = FALSE
    /\ pc_coord = "constructed"
    /\ pc_listener = "idle"
    /\ cur_event = 0
    /\ batch_to_write = <<>>
    /\ pc_writer = "none"
    /\ cur_segment = <<>>
    /\ pc_emotion = "none"
    /\ store = EmptyBag
    /\ appended = <<>>
    /\ drained = <<>>
    /\ chunks = 0
    /\ samples = 0
    /\ segments_emitted = <<>>
    /\ emotion_failures = 0
    /\ inserted = <<>>

\* the capture source whose start() raises in _start_session, if any
Sources == {"pointer", "frame", "audio", "emotion"}
NoSource == "none"

\* _start_session: the store is opened, the session created and the four
\* trackers started in the order pointer, frame, audio, emotion.  An
\* exception of mouse_tracker.start() or of screenshot_tracker.start()
\* (which has set running before it looks up the monitor) leaves
\* _start_session; an exception of the audio or of the emotion tracker is
\* caught and the tracker set to None.
StartSession(failing) ==
    /\ pc_coord = "constructed"
    /\ db_conn' = "open"
    /\ session_id' = 1
    /\ session_status' = "active"
    /\ stopping' = FALSE
    /\ mouse_listening' = IF failing = "pointer" THEN mouse_listening ELSE "running"
    /\ shot_running' = (failing # "pointer")
    /\ IF failing \in {"pointer", "frame"}
       THEN /\ pc_coord' = "start_failed"
            /\ UNCHANGED <<audio_stream, audio_running, pc_writer,
                           emotion_running, pc_emotion, is_recording>>
       ELSE /\ audio_stream' = (failing # "audio")
            /\ audio_running' = (failing # "audio")
            /\ pc_writer' = IF failing = "audio" THEN "none" ELSE "loop"
            /\ emotion_running' = (failing # "emotion")
            /\ pc_emotion' = IF failing = "emotion" THEN "none" ELSE "loop"
            /\ is_recording' = TRUE
            /\ pc_coord' = "recording"
    /\ UNCHANGED <<event_buffer, buffer_lock, current_segment, audio_buffer,
                   pc_listener, cur_event, batch_to_write, cur_segment,
                   store, appended, drained, chunks, samples>>
    /\ UNCHANGED <<sessionHist, outsideSession>>

\* _stop_session: the flags, then mouse_tracker.stop(), which asks the
\* listener to stop and does not wait for a callback in progress, then
\* screenshot_tracker.stop()
StopInputs ==
    /\ pc_coord = "recording"
    /\ is_recording' = FALSE
    /\ stopping' = TRUE
    /\ mouse_listening' = "stopped"
    /\ shot_running' = FALSE
    /\ pc_coord' = "stop_audio"
    /\ UNCHANGED <<db_conn, session_id, session_status, event_buffer, buffer_lock,
                   audio_stream, audio_running, current_segment,
                   audio_buffer, emotion_running,
                   pc_listener, cur_event, batch_to_write, pc_writer, cur_segment,
                   pc_emotion, store, appended, drained, chunks, samples>>
    /\ UNCHANGED <<sessionHist, outsideSession>>

\* AudioTracker.stop, steps 1 to 3: the stream is stopped, the final
\* segment queued (current_segment is not reset) and running set to False
AudioStopBody ==
    /\ audio_stream' = FALSE
    /\ audio_buffer' = IF current_segment # <<>>
                       THEN Append(audio_buffer, current_segment)
                       ELSE audio_buffer
    /\ audio_running' = FALSE

\* _stop_session: audio_tracker.stop() up to its join
StopAudio ==
    /\ pc_coord = "stop_audio"
    /\ AudioStopBody
    /\ pc_coord' = "join_audio"
    /\ UNCHANGED <<db_conn, session_id, session_status, is_recording, stopping,
                   event_buffer, buffer_lock, mouse_listening, shot_running,
                   current_segment, emotion_running,
                   pc_listener, cur_event, batch_to_write, pc_writer, cur_segment,
                   pc_emotion, store, appended, drained, chunks, samples>>
    /\ UNCHANGED <<sessionHist, outsideSession>>

\* a join without a timeout
JoinAudioNoTimeout(timeout) ==
    /\ pc_coord = "join_audio"
    /\ pc_writer = "done"
    /\ pc_coord' = "stop_emotion"
    /\ UNCHANGED <<db_conn, session_id, session_status, is_recording, stopping,
                   event_buffer, buffer_lock, mouse_listening, shot_running,
                   audio_stream, audio_running, current_segment, audio_buffer,
                   emotion_running,
                   pc_listener, cur_event, batch_to_write, pc_writer, cur_segment,
                   pc_emotion, store, appended, drained, chunks, samples>>
    /\ UNCHANGED <<sessionHist, outsideSession>>

\* AudioTracker.stop, step 4: _writer_thread.join(timeout=10.0) returns when
\* the writer has ended or when the timeout has passed; there is no join
\* when the tracker is None
JoinAudio(timeout) ==
    /\ pc_coord = "join_audio"
    /\ timeout \/ pc_writer \in {"done", "none"}
    /\ pc_coord' = "stop_emotion"
    /\ UNCHANGED <<db_conn, session_id, session_status, is_recording, stopping,
                   event_buffer, buffer_lock, mouse_listening, shot_running,
                   audio_stream, audio_running, current_segment, audio_buffer,
                   emotion_running,
                   pc_listener, cur_event, batch_to_write, pc_writer, cur_segment,
                   pc_emotion, store, appended, drained, chunks, samples>>
    /\ UNCHANGED <<sessionHist, outsideSession>>

\* EmotionTracker.stop: running = False and the stop event
StopEmotion ==
    /\ pc_coord = "stop_emotion"
    /\ emotion_running' = FALSE
    /\ pc_coord' = "join_emotion"
    /\ UNCHANGED <<db_conn, session_id, session_status, is_recording, stopping,
                   event_buffer, buffer_lock, mouse_listening, shot_running,
                   audio_stream, audio_running, current_segment, audio_buffer,
                   pc_listener, cur_event, batch_to_write, pc_writer, cur_segment,
                   pc_emotion, store, appended, drained, chunks, samples>>
    /\ UNCHANGED <<sessionHist, outsideSession>>

\* EmotionTracker.stop: _thread.join(timeout=5.0)
JoinEmotion(timeout) ==
    /\ pc_coord = "join_emotion"
    /\ timeout \/ pc_emotion \in {"done", "none"}
    /\ pc_coord' = "flush_lock"
    /\ UNCHANGED <<db_conn, session_id, session_status, is_recording, stopping,
                   event_buffer, buffer_lock, mouse_listening, shot_running,
                   audio_stream, audio_running, current_segment, audio_buffer,
                   emotion_running,
                   pc_listener, cur_event, batch_to_write, pc_writer, cur_segment,
                   pc_emotion, store, appended, drained, chunks, samples>>
    /\ UNCHANGED <<sessionHist, outsideSession>>

\* _flush_buffer_safe: "with self._buffer_lock"
FlushAcquire ==
    /\ pc_coord = "flush_lock"
    /\ buffer_lock = Free
    /\ buffer_lock' = "coord"
    /\ pc_coord' = "flush_write"
    /\ UNCHANGED <<db_conn, session_id, session_status, is_recording, stopping,
                   event_buffer, mouse_listening, shot_running,
                   audio_stream, audio_running, current_segment, audio_buffer,
                   emotion_running,
                   pc_listener, cur_event, batch_to_write, pc_writer, cur_segment,
                   pc_emotion, store, appended, drained, chunks, samples>>
    /\ UNCHANGED <<sessionHist, outsideSession>>

\* a clear() that removes nothing
clearNothing(buffer) == buffer

\* self._event_buffer.clear()
clear(buffer) == <<>>

\* the test of _flush_buffer_safe
FlushNeeded == event_buffer # <<>> /\ session_id # 0

\* _flush_buffer_safe: insert_mouse_events_batch(self._event_buffer) and
\* clear(), both inside the with block, whose end releases the lock
FlushWrite ==
    /\ pc_coord = "flush_write"
    /\ IF FlushNeeded
       THEN /\ store' = store (+) SetToBag({Write("mouse", event_buffer, "flush")})
            /\ inserted' = inserted \o event_buffer
            /\ drained' = Append(drained, [via |-> "flush", rows |-> event_buffer])
            /\ event_buffer' = clear(event_buffer)
       ELSE UNCHANGED <<store, inserted, drained, event_buffer>>
    /\ buffer_lock' = Free
    /\ pc_coord' = "end_session"
    /\ UNCHANGED <<db_conn, session_id, session_status, is_recording, stopping,
                   mouse_listening, shot_running,
                   audio_stream, audio_running, current_segment, audio_buffer,
                   emotion_running,
                   pc_listener, cur_event, batch_to_write, pc_writer, cur_segment,
                   pc_emotion, appended, chunks, samples>>
    /\ UNCHANGED <<segments_emitted, emotion_failures, outsideSession>>

\* _stop_session: db.end_session(session_id)
EndSession ==
    /\ pc_coord = "end_session"
    /\ session_status' = IF session_id # 0 THEN "completed" ELSE session_status
    /\ pc_coord' = "close"
    /\ UNCHANGED <<db_conn, session_id, is_recording, stopping,
                   event_buffer, buffer_lock, mouse_listening, shot_running,
                   audio_stream, audio_running, current_segment, audio_buffer,
                   emotion_running,
                   pc_listener, cur_event, batch_to_write, pc_writer, cur_segment,
                   pc_emotion, store, appended, drained, chunks, samples>>
    /\ UNCHANGED <<sessionHist, outsideSession>>

\* _stop_session: _generate_heatmaps() reads the store, db.close() sets
\* conn to None, and _stop_session returns
CloseDb ==
    /\ pc_coord = "close"
    /\ db_conn' = "none"
    /\ pc_coord' = "stopped"
    /\ UNCHANGED <<session_id, session_status, is_recording, stopping,
                   event_buffer, buffer_lock, mouse_listening, shot_running,
                   audio_stream, audio_running, current_segment, audio_buffer,
                   emotion_running,
                   pc_listener, cur_event, batch_to_write, pc_writer, cur_segment,
                   pc_emotion, store, appended, drained, chunks, samples>>
    /\ UNCHANGED <<sessionHist, outsideSession>>

\* the pynput listener thread delivers a notification: MouseTracker builds
\* the event and calls _on_mouse_event
ListenerNotify ==
    /\ mouse_listening = "running"
    /\ pc_listener = "idle"
    /\ Len(appended) < MaxEvents
    /\ cur_event' = Len(appended) + 1
    /\ pc_listener' = "append_lock"
    /\ UNCHANGED <<db_conn, session_id, session_status, is_recording, stopping,
                   event_buffer, buffer_lock, mouse_listening, shot_running,
                   audio_stream, audio_running, current_segment, audio_buffer,
                   emotion_running, pc_coord, batch_to_write,
                   pc_writer, cur_segment, pc_emotion,
                   store, appended, drained, chunks, samples>>
    /\ UNCHANGED <<sessionHist, outsideSession>>

\* _on_mouse_event: "with self._buffer_lock"
ListenerAcquire ==
    /\ pc_listener = "append_lock"
    /\ buffer_lock = Free
    /\ buffer_lock' = "listener"
    /\ pc_listener' = "append"
    /\ UNCHANGED <<db_conn, session_id, session_status, is_recording, stopping,
                   event_buffer, mouse_listening, shot_running,
                   audio_stream, audio_running, current_segment, audio_buffer,
                   emotion_running, pc_coord, cur_event, batch_to_write,
                   pc_writer, cur_segment, pc_emotion,
                   store, appended, drained, chunks, samples>>
    /\ UNCHANGED <<sessionHist, outsideSession>>

\* the drain test with > for >=
BufferFullStrict(n) == n > BUFFER_SIZE

\* the drain test of _on_mouse_event
BufferFull(n) == n >= BUFFER_SIZE

\* _on_mouse_event: append under the lock; a full buffer is copied to
\* batch_to_write and cleared; the lock is released
ListenerAppend ==
    /\ pc_listener = "append"
    /\ LET grown == Append(event_buffer, cur_event)
       IN /\ appended' = Append(appended, cur_event)
          /\ IF BufferFull(Len(grown))
             THEN /\ batch_to_write' = grown
                  /\ event_buffer' = clear(grown)
                  /\ drained' = Append(drained, [via |-> "threshold", rows |-> grown])
                  /\ pc_listener' = "write"
             ELSE /\ event_buffer' = grown
                  /\ pc_listener' = "feed"
                  /\ UNCHANGED <<batch_to_write, drained>>
    /\ buffer_lock' = Free
    /\ UNCHANGED <<db_conn, session_id, session_status, is_recording, stopping,
                   mouse_listening, shot_running,
                   audio_stream, audio_running, current_segment, audio_buffer,
                   emotion_running, pc_coord, cur_event,
                   pc_writer, cur_segment, pc_emotion,
                   store, chunks, samples>>
    /\ UNCHANGED <<sessionHist, outsideSession>>

\* _on_mouse_event: insert_mouse_events_batch(batch_to_write) outside the
\* lock.  With the connection closed (conn is None) the call raises, the
\* exception leaves the callback and ends the listener thread.
ListenerWrite ==
    /\ pc_listener = "write"
    /\ IF db_conn = "open"
       THEN /\ store' = store (+) SetToBag({Write("mouse", batch_to_write, "threshold")})
            /\ inserted' = inserted \o batch_to_write
            /\ pc_listener' = "feed"
            /\ UNCHANGED <<cur_event, mouse_listening>>
       ELSE /\ pc_listener' = "idle"
            /\ cur_event' = 0
            /\ mouse_listening' = "stopped"
            /\ UNCHANGED <<store, inserted>>
    /\ batch_to_write' = <<>>
    /\ UNCHANGED <<db_conn, session_id, session_status, is_recording, stopping,
                   event_buffer, buffer_lock, shot_running,
                   audio_stream, audio_running, current_segment, audio_buffer,
                   emotion_running, pc_coord,
                   pc_writer, cur_segment, pc_emotion,
                   appended, drained, chunks, samples>>
    /\ UNCHANGED <<segments_emitted, emotion_failures, outsideSession>>

\* what one call of screenshot_tracker.on_mouse_event can do
GateOutcomes == {"none", "capture", "hang"}

\* _on_mouse_event: screenshot_tracker.on_mouse_event(event).  The gate
\* tests running, then returns, goes on to a capture or hangs on its lock.
ListenerFeed(outcome) ==
    /\ pc_listener = "feed"
    /\ pc_listener' = IF ~shot_running \/ outcome = "none" THEN "idle"
                      ELSE IF outcome = "capture" THEN "capture" ELSE "hung"
    /\ cur_event' = 0
    /\ UNCHANGED <<db_conn, session_id, session_status, is_recording, stopping,
                   event_buffer, buffer_lock, mouse_listening, shot_running,
                   audio_stream, audio_running, current_segment, audio_buffer,
                   emotion_running, pc_coord, batch_to_write,
                   pc_writer, cur_segment, pc_emotion,
                   store, appended, drained, chunks, samples>>
    /\ UNCHANGED <<sessionHist, outsideSession>>

\* _capture_screenshot and _on_screenshot: insert_screenshot; a failure of
\* the capture or of the insert is caught inside _capture_screenshot
ListenerShot(ok) ==
    /\ pc_listener = "capture"
    /\ store' = IF ok /\ db_conn = "open"
                THEN store (+) SetToBag({Write("screenshot", <<>>, "callback")})
                ELSE store
    /\ pc_listener' = "idle"
    /\ UNCHANGED <<db_conn, session_id, session_status, is_recording, stopping,
                   event_buffer, buffer_lock, mouse_listening, shot_running,
                   audio_stream, audio_running, current_segment, audio_buffer,
                   emotion_running, pc_coord, cur_event, batch_to_write,
                   pc_writer, cur_segment, pc_emotion,
                   appended, drained, chunks, samples>>
    /\ UNCHANGED <<sessionHist, outsideSession>>

\* AudioTracker._audio_callback: the chunk is appended; when the segment
\* duration has elapsed (cut) the segment is queued and a new one begun
AudioChunk(cut) ==
    /\ audio_stream
    /\ chunks < MaxChunks
    /\ chunks' = chunks + 1
    /\ LET grown == Append(current_segment, chunks + 1)
       IN IF cut
          THEN /\ audio_buffer' = Append(audio_buffer, grown)
               /\ current_segment' = <<>>
          ELSE /\ current_segment' = grown
               /\ UNCHANGED audio_buffer
    /\ UNCHANGED <<db_conn, session_id, session_status, is_recording, stopping,
                   event_buffer, buffer_lock, mouse_listening, shot_running,
                   audio_stream, audio_running, emotion_running,
                   pc_coord, pc_listener, cur_event, batch_to_write,
                   pc_writer, cur_segment, pc_emotion,
                   store, appended, drained, samples>>
    /\ UNCHANGED <<sessionHist, outsideSession>>

\* AudioTracker._writer_loop: a queued segment is taken
WriterTake ==
    /\ pc_writer = "loop"
    /\ audio_buffer # <<>>
    /\ cur_segment' = Head(audio_buffer)
    /\ audio_buffer' = Tail(audio_buffer)
    /\ pc_writer' = "saving"
    /\ UNCHANGED <<db_conn, session_id, session_status, is_recording, stopping,
                   event_buffer, buffer_lock, mouse_listening, shot_running,
                   audio_stream, audio_running, current_segment, emotion_running,
                   pc_coord, pc_listener, cur_event, batch_to_write, pc_emotion,
                   store, appended, drained, chunks, samples>>
    /\ UNCHANGED <<sessionHist, outsideSession>>

\* what one call of _save_segment can do: the file is written and the row
\* inserted, sf.write raises, or insert_audio_segment raises in the callback
SaveOutcomes == {"saved", "file_error", "insert_error"}

\* AudioTracker._save_segment and _on_audio_segment: the file is written,
\* on_segment_callback called and insert_audio_segment called in it; any
\* exception is caught and logged by _save_segment, and the segment, a
\* local of the writer loop, is gone when the call returns
WriterSave(outcome) ==
    /\ pc_writer = "saving"
    /\ segments_emitted' = IF outcome = "file_error"
                           THEN segments_emitted
                           ELSE Append(segments_emitted, cur_segment)
    /\ store' = IF outcome = "saved" /\ db_conn = "open"
                THEN store (+) SetToBag({Write("audio", cur_segment, "callback")})
                ELSE store
    /\ cur_segment' = <<>>
    /\ pc_writer' = "loop"
    /\ UNCHANGED <<db_conn, session_id, session_status, is_recording, stopping,
                   event_buffer, buffer_lock, mouse_listening, shot_running,
                   audio_stream, audio_running, current_segment, audio_buffer,
                   emotion_running,
                   pc_coord, pc_listener, cur_event, batch_to_write, pc_emotion,
                   appended, drained, chunks, samples>>
    /\ UNCHANGED <<emotion_failures, inserted, outsideSession>>

\* a writer loop that tests running alone
WriterExitEarly ==
    /\ pc_writer = "loop"
    /\ ~audio_running
    /\ pc_writer' = "done"
    /\ UNCHANGED <<db_conn, session_id, session_status, is_recording, stopping,
                   event_buffer, buffer_lock, mouse_listening, shot_running,
                   audio_stream, audio_running, current_segment, audio_buffer,
                   emotion_running,
                   pc_coord, pc_listener, cur_event, batch_to_write, cur_segment,
                   pc_emotion, store, appended, drained, chunks, samples>>
    /\ UNCHANGED <<sessionHist, outsideSession>>

\* AudioTracker._writer_loop: the loop ends when running is false and the
\* queue is empty
WriterExit ==
    /\ pc_writer = "loop"
    /\ ~audio_running
    /\ audio_buffer = <<>>
    /\ pc_writer' = "done"
    /\ UNCHANGED <<db_conn, session_id, session_status, is_recording, stopping,
                   event_buffer, buffer_lock, mouse_listening, shot_running,
                   audio_stream, audio_running, current_segment, audio_buffer,
                   emotion_running,
                   pc_coord, pc_listener, cur_event, batch_to_write, cur_segment,
                   pc_emotion, store, appended, drained, chunks, samples>>
    /\ UNCHANGED <<sessionHist, outsideSession>>

\* EmotionTracker._capture_loop: the loop test passes and a frame is read;
\* a failed read is logged and the loop goes back to its test
EmotionPoll(read_ok) ==
    /\ pc_emotion = "loop"
    /\ emotion_running
    /\ IF read_ok
       THEN /\ samples < MaxSamples
            /\ samples' = samples + 1
            /\ pc_emotion' = "analyzing"
            /\ UNCHANGED emotion_failures
       ELSE /\ emotion_failures < MaxFailures
            /\ emotion_failures' = emotion_failures + 1
            /\ UNCHANGED <<samples, pc_emotion>>
    /\ UNCHANGED <<db_conn, session_id, session_status, is_recording, stopping,
                   event_buffer, buffer_lock, mouse_listening, shot_running,
                   audio_stream, audio_running, current_segment, audio_buffer,
                   emotion_running,
                   pc_coord, pc_listener, cur_event, batch_to_write,
                   pc_writer, cur_segment,
                   store, appended, drained, chunks>>
    /\ UNCHANGED <<segments_emitted, inserted, outsideSession>>

\* what the analysis of one frame can do: a result handed to the callback,
\* no face or no emotions (None), an exception of the classifier (caught in
\* _analyze_frame, None), an exception of on_emotion_callback
EmotionOutcomes == {"result", "none", "classifier_error", "callback_error"}

\* the analysis of the frame has failed: an injected failure, or the insert
\* of _on_emotion on a closed connection
EmotionFails(outcome) ==
    \/ outcome \in {"classifier_error", "callback_error"}
    \/ outcome = "result" /\ db_conn # "open"

\* a loop that ends at the first failure
EmotionEmitExits(outcome) ==
    /\ pc_emotion = "analyzing"
    /\ outcome \in {"classifier_error", "callback_error"} => emotion_failures < MaxFailures
    /\ emotion_failures' = IF EmotionFails(outcome) THEN emotion_failures + 1
                           ELSE emotion_failures
    /\ store' = IF outcome = "result" /\ db_conn = "open"
                THEN store (+) SetToBag({Write("emotion", <<>>, "callback")})
                ELSE store
    /\ pc_emotion' = IF EmotionFails(outcome) THEN "done" ELSE "loop"
    /\ UNCHANGED <<db_conn, session_id, session_status, is_recording, stopping,
                   event_buffer, buffer_lock, mouse_listening, shot_running,
                   audio_stream, audio_running, current_segment, audio_buffer,
                   emotion_running,
                   pc_coord, pc_listener, cur_event, batch_to_write,
                   pc_writer, cur_segment,
                   appended, drained, chunks, samples>>
    /\ UNCHANGED <<segments_emitted, inserted, outsideSession>>

\* EmotionTracker._capture_loop, _analyze_frame and _on_emotion: with a
\* result the callback calls insert_emotion_event; an exception of the
\* classifier gives None, an exception of the callback is caught by the
\* loop, which sleeps and goes back to its test
EmotionEmit(outcome) ==
    /\ pc_emotion = "analyzing"
    /\ outcome \in {"classifier_error", "callback_error"} => emotion_failures < MaxFailures
    /\ emotion_failures' = IF EmotionFails(outcome) THEN emotion_failures + 1
                           ELSE emotion_failures
    /\ store' = IF outcome = "result" /\ db_conn = "open"
                THEN store (+) SetToBag({Write("emotion", <<>>, "callback")})
                ELSE store
    /\ pc_emotion' = "loop"
    /\ UNCHANGED <<db_conn, session_id, session_status, is_recording, stopping,
                   event_buffer, buffer_lock, mouse_listening, shot_running,
                   audio_stream, audio_running, current_segment, audio_buffer,
                   emotion_running,
                   pc_coord, pc_listener, cur_event, batch_to_write,
                   pc_writer, cur_segment,
                   appended, drained, chunks, samples>>
    /\ UNCHANGED <<segments_emitted, inserted, outsideSession>>

\* EmotionTracker._capture_loop: the loop test fails
EmotionExit ==
    /\ pc_emotion = "loop"
    /\ ~emotion_running
    /\ pc_emotion' = "done"
    /\ UNCHANGED <<db_conn, session_id, session_status, is_recording, stopping,
                   event_buffer, buffer_lock, mouse_listening, shot_running,
                   audio_stream, audio_running, current_segment, audio_buffer,
                   emotion_running,
                   pc_coord, pc_listener, cur_event, batch_to_write,
                   pc_writer, cur_segment,
                   store, appended, drained, chunks, samples>>
    /\ UNCHANGED <<sessionHist, outsideSession>>

NextSession ==
    \/ \E failing \in Sources \cup {NoSource} : StartSession(failing)
    \/ StopInputs
    \/ StopAudio
    \/ \E timeout \in BOOLEAN : JoinAudio(timeout)
    \/ StopEmotion
    \/ \E timeout \in BOOLEAN : JoinEmotion(timeout)
    \/ FlushAcquire
    \/ FlushWrite
    \/ EndSession
    \/ CloseDb
    \/ ListenerNotify
    \/ ListenerAcquire
    \/ ListenerAppend
    \/ ListenerWrite
    \/ \E outcome \in GateOutcomes : ListenerFeed(outcome)
    \/ \E ok \in BOOLEAN : ListenerShot(ok)
    \/ \E cut \in BOOLEAN : AudioChunk(cut)
    \/ WriterTake
    \/ \E outcome \in {"saved", "insert_error"} : WriterSave(outcome)
    \/ WriterExit
    \/ EmotionPoll(TRUE)
    \/ \E outcome \in {"result", "none"} : EmotionEmit(outcome)
    \/ EmotionExit

\* the coordinator's steps from _start_session to the end of _stop_session
NextCoordinator ==
    \/ \E failing \in Sources \cup {NoSource} : StartSession(failing)
    \/ StopInputs
    \/ StopAudio
    \/ \E timeout \in BOOLEAN : JoinAudio(timeout)
    \/ StopEmotion
    \/ \E timeout \in BOOLEAN : JoinEmotion(timeout)
    \/ FlushAcquire
    \/ FlushWrite
    \/ EndSession
    \/ CloseDb

\* the pynput listener thread under the coordinator: the pointer events'
\* way through the buffer to the store
NextPointer ==
    \/ NextCoordinator
    \/ ListenerNotify
    \/ ListenerAcquire
    \/ ListenerAppend
    \/ ListenerWrite
    \/ \E outcome \in GateOutcomes : ListenerFeed(outcome)
    \/ \E ok \in BOOLEAN : ListenerShot(ok)

\* the audio tracker under the coordinator; the file write of _save_segment
\* succeeds
NextAudio ==
    \/ NextCoordinator
    \/ \E cut \in BOOLEAN : AudioChunk(cut)
    \/ WriterTake
    \/ \E outcome \in {"saved", "insert_error"} : WriterSave(outcome)
    \/ WriterExit

\* the worker threads of the audio and emotion trackers under the
\* coordinator, with every failure they can meet
NextWorkers ==
    \/ NextCoordinator
    \/ \E cut \in BOOLEAN : AudioChunk(cut)
    \/ WriterTake
    \/ \E outcome \in SaveOutcomes : WriterSave(outcome)
    \/ WriterExit
    \/ \E read_ok \in BOOLEAN : EmotionPoll(read_ok)
    \/ \E outcome \in EmotionOutcomes : EmotionEmit(outcome)
    \/ EmotionExit

(***************************************************************************)
(* The four trackers under a caller that starts each of them once and calls *)
(* stop() on it, more than once.                                            *)
(***************************************************************************)
Trackers == {"mouse", "screenshot", "audio", "emotion"}

InitUnit ==
    /\ stop_calls = [k \in Trackers |-> 0]
    /\ client = "idle"

\* the fields and the queue of one tracker object
TrackerState(k) ==
    CASE k = "mouse" -> <<listener>>
      [] k = "screenshot" -> <<running>>
      [] k = "audio" -> <<audio_stream, audio_running, current_segment, audio_buffer>>
      [] k = "emotion" -> <<emotion_running>>

\* start() has been called on the tracker
Started(k) ==
    CASE k = "mouse" -> listener # "none"
      [] k = "screenshot" -> running \/ stop_calls[k] > 0
      [] k = "audio" -> pc_writer # "none"
      [] k = "emotion" -> pc_emotion # "none"

\* MouseTracker.start, EventBasedScreenshotTracker.start, AudioTracker.start
\* and EmotionTracker.start, each called once
TrackerStart(k) ==
    /\ client = "idle"
    /\ ~Started(k)
    /\ listener' = IF k = "mouse" THEN "running" ELSE listener
    /\ running' = IF k = "screenshot" THEN TRUE ELSE running
    /\ audio_stream' = IF k = "audio" THEN TRUE ELSE audio_stream
    /\ audio_running' = IF k = "audio" THEN TRUE ELSE audio_running
    /\ pc_writer' = IF k = "audio" THEN "loop" ELSE pc_writer
    /\ emotion_running' = IF k = "emotion" THEN TRUE ELSE emotion_running
    /\ pc_emotion' = IF k = "emotion" THEN "loop" ELSE pc_emotion
    /\ UNCHANGED <<last_position, events_captured, emitted, notified>>
    /\ UNCHANGED <<screenshots_captured, last_screenshot_time,
                   scroll_accumulator_x, scroll_accumulator_y, lock,
                   pc, event, current_time, total_scroll,
                   now, calls, scroll_sum, trigger_log, capture_log, arrived, attempts>>
    /\ UNCHANGED <<db_conn, session_id, session_status, is_recording, stopping,
                   event_buffer, buffer_lock, mouse_listening, shot_running,
                   current_segment, audio_buffer,
                   pc_coord, pc_listener, cur_event, batch_to_write, cur_segment,
                   store, appended, drained, chunks, samples>>
    /\ UNCHANGED <<gateHist, sessionHist, pipeVars, demoVars, restVars, unitVars>>

\* MouseTracker.stop: listener.stop() if there is a listener
MouseTrackerStop ==
    /\ client = "idle"
    /\ Started("mouse")
    /\ stop_calls["mouse"] < MaxStops
    /\ listener' = IF listener # "none" THEN "stopped" ELSE listener
    /\ stop_calls' = [stop_calls EXCEPT !["mouse"] = @ + 1]
    /\ UNCHANGED <<last_position, events_captured, emitted, notified, client>>
    /\ UNCHANGED <<gateVars, gateHist, sessionVars, sessionHist, pipeVars, demoVars, restVars>>

\* EventBasedScreenshotTracker.stop: running = False
ScreenshotTrackerStop ==
    /\ client = "idle"
    /\ Started("screenshot")
    /\ stop_calls["screenshot"] < MaxStops
    /\ running' = FALSE
    /\ stop_calls' = [stop_calls EXCEPT !["screenshot"] = @ + 1]
    /\ UNCHANGED <<screenshots_captured, last_screenshot_time,
                   scroll_accumulator_x, scroll_accumulator_y, lock,
                   pc, event, current_time, total_scroll,
                   now, calls, scroll_sum, trigger_log, capture_log, arrived, attempts>>
    /\ UNCHANGED <<gateHist, mouseVars, sessionVars, sessionHist, pipeVars, demoVars, restVars, client>>

\* AudioTracker.stop, steps 1 to 3, called by the caller
AudioTrackerStop ==
    /\ client = "idle"
    /\ Started("audio")
    /\ stop_calls["audio"] < MaxStops
    /\ AudioStopBody
    /\ client' = "join_audio"
    /\ UNCHANGED <<db_conn, session_id, session_status, is_recording, stopping,
                   event_buffer, buffer_lock, mouse_listening, shot_running,
                   current_segment, emotion_running,
                   pc_coord, pc_listener, cur_event, batch_to_write, pc_writer,
                   cur_segment, pc_emotion, store, appended, drained, chunks,
                   samples>>
    /\ UNCHANGED <<gateVars, gateHist, mouseVars, sessionHist, pipeVars, demoVars, restVars, stop_calls>>

\* EmotionTracker.stop: running = False and the stop event
EmotionTrackerStop ==
    /\ client = "idle"
    /\ Started("emotion")
    /\ stop_calls["emotion"] < MaxStops
    /\ emotion_running' = FALSE
    /\ client' = "join_emotion"
    /\ UNCHANGED <<db_conn, session_id, session_status, is_recording, stopping,
                   event_buffer, buffer_lock, mouse_listening, shot_running,
                   audio_stream, audio_running, current_segment, audio_buffer,
                   pc_coord, pc_listener, cur_event, batch_to_write, pc_writer,
                   cur_segment, pc_emotion, store, appended, drained, chunks,
                   samples>>
    /\ UNCHANGED <<gateVars, gateHist, mouseVars, sessionHist, pipeVars, demoVars, restVars, stop_calls>>

\* the join that ends AudioTracker.stop (timeout 10.0) and EmotionTracker.stop
\* (timeout 5.0, skipped when the thread is not alive): stop() returns
TrackerJoin(timeout) ==
    /\ client \in {"join_audio", "join_emotion"}
    /\ \/ timeout
       \/ client = "join_audio" /\ pc_writer = "done"
       \/ client = "join_emotion" /\ pc_emotion = "done"
    /\ stop_calls' = [stop_calls EXCEPT
                         ![IF client = "join_audio" THEN "audio" ELSE "emotion"] = @ + 1]
    /\ client' = "idle"
    /\ UNCHANGED <<gateVars, gateHist, mouseVars, sessionVars, sessionHist, pipeVars, demoVars, restVars>>

NextTrackers ==
    \/ \E k \in Trackers : TrackerStart(k)
    \/ MouseTrackerStop
    \/ ScreenshotTrackerStop
    \/ AudioTrackerStop
    \/ EmotionTrackerStop
    \/ \E timeout \in BOOLEAN : TrackerJoin(timeout)
    \/ \E cut \in BOOLEAN : AudioChunk(cut)
    \/ WriterTake
    \/ \E outcome \in SaveOutcomes : WriterSave(outcome)
    \/ WriterExit
    \/ \E read_ok \in BOOLEAN : EmotionPoll(read_ok)
    \/ \E outcome \in EmotionOutcomes : EmotionEmit(outcome)
    \/ EmotionExit

(***************************************************************************)
(* SimpleTrackingDemo: a coordinator that runs on the main thread, where    *)
(* its SIGINT handler interrupts it and calls stop() again.                 *)
(***************************************************************************)
InitDemo ==
    /\ demo_stack = <<>>
    /\ demo_state = "new"
    /\ demo_conn = "none"
    /\ demo_status = "none"
    /\ demo_listening = "none"
    /\ demo_buffer = 0
    /\ demo_stored = 0
    /\ end_sessions = 0
    /\ signals = 0

\* the call that runs: the last one entered
Top == demo_stack[Len(demo_stack)]

\* the running call moves on
Goto(position) == [demo_stack EXCEPT ![Len(demo_stack)] = position]

\* an exception leaves every call in progress and ends the process
Raise ==
    /\ demo_stack' = <<>>
    /\ demo_state' = "error"

\* start(): the store is initialized, the session created, the tracker
\* started and the progress loop entered
DemoStart ==
    /\ demo_state = "new"
    /\ demo_state' = "running"
    /\ demo_conn' = "open"
    /\ demo_status' = "active"
    /\ demo_listening' = "running"
    /\ demo_stack' = <<"loop">>
    /\ UNCHANGED <<demo_buffer, demo_stored, end_sessions, signals>>
    /\ UNCHANGED outsideDemo

\* _on_mouse_event on the listener thread: the event is appended to the
\* buffer (the flush at buffer_size events is not reached)
DemoMouseEvent ==
    /\ demo_listening = "running"
    /\ demo_buffer < MaxDemoEvents
    /\ demo_buffer' = demo_buffer + 1
    /\ UNCHANGED <<demo_stack, demo_state, demo_conn, demo_status,
                   demo_listening, demo_stored, end_sessions, signals>>
    /\ UNCHANGED outsideDemo

\* start(): the loop ends after the duration and stop() is called
DemoLoopEnd ==
    /\ demo_stack # <<>>
    /\ Top = "loop"
    /\ demo_stack' = Goto("stop_tracker")
    /\ UNCHANGED <<demo_state, demo_conn, demo_status, demo_listening,
                   demo_buffer, demo_stored, end_sessions, signals>>
    /\ UNCHANGED outsideDemo

\* SIGINT: _signal_handler runs on the main thread between two steps of the
\* code there, and calls stop()
DemoSignal ==
    /\ demo_stack # <<>>
    /\ signals < MaxSignals
    /\ signals' = signals + 1
    /\ demo_stack' = Append(demo_stack, "stop_tracker")
    /\ UNCHANGED <<demo_state, demo_conn, demo_status, demo_listening,
                   demo_buffer, demo_stored, end_sessions>>
    /\ UNCHANGED outsideDemo

\* stop(): running = False and tracker.stop()
DemoStopTracker ==
    /\ demo_stack # <<>>
    /\ Top = "stop_tracker"
    /\ demo_listening' = "stopped"
    /\ demo_stack' = Goto("flush")
    /\ UNCHANGED <<demo_state, demo_conn, demo_status, demo_buffer,
                   demo_stored, end_sessions, signals>>
    /\ UNCHANGED outsideDemo

\* stop(): _flush_buffer() writes a non-empty buffer and clears it; the
\* insert raises on a closed connection
DemoFlush ==
    /\ demo_stack # <<>>
    /\ Top = "flush"
    /\ IF demo_buffer = 0
       THEN /\ demo_stack' = Goto("end_session")
            /\ UNCHANGED <<demo_state, demo_buffer, demo_stored>>
       ELSE IF demo_conn = "open"
            THEN /\ demo_stored' = demo_stored + demo_buffer
                 /\ demo_buffer' = 0
                 /\ demo_stack' = Goto("end_session")
                 /\ UNCHANGED demo_state
            ELSE /\ Raise
                 /\ UNCHANGED <<demo_buffer, demo_stored>>
    /\ UNCHANGED <<demo_conn, demo_status, demo_listening, end_sessions, signals>>
    /\ UNCHANGED outsideDemo

\* stop(): db.end_session(session_id), which raises on a closed connection
\* (conn is None)
DemoEndSession ==
    /\ demo_stack # <<>>
    /\ Top = "end_session"
    /\ IF demo_conn = "open"
       THEN /\ end_sessions' = end_sessions + 1
            /\ demo_status' = "completed"
            /\ demo_stack' = Goto("report")
            /\ UNCHANGED demo_state
       ELSE /\ Raise
            /\ UNCHANGED <<end_sessions, demo_status>>
    /\ UNCHANGED <<demo_conn, demo_listening, demo_buffer, demo_stored, signals>>
    /\ UNCHANGED outsideDemo

\* stop(): the statistics and the heatmaps are read from the store, then
\* db.close(); stop() returns: to start(), which returns, or to
\* _signal_handler, which calls sys.exit(0)
DemoClose ==
    /\ demo_stack # <<>>
    /\ Top = "report"
    /\ demo_conn' = "none"
    /\ IF Len(demo_stack) = 1
       THEN /\ demo_stack' = Goto("returned")
            /\ UNCHANGED demo_state
       ELSE /\ demo_stack' = <<>>
            /\ demo_state' = "exited"
    /\ UNCHANGED <<demo_status, demo_listening, demo_buffer, demo_stored,
                   end_sessions, signals>>
    /\ UNCHANGED outsideDemo

\* main() returns and the process ends
DemoExit ==
    /\ demo_stack = <<"returned">>
    /\ demo_stack' = <<>>
    /\ demo_state' = "exited"
    /\ UNCHANGED <<demo_conn, demo_status, demo_listening, demo_buffer,
                   demo_stored, end_sessions, signals>>
    /\ UNCHANGED outsideDemo

NextDemo ==
    \/ DemoStart
    \/ DemoMouseEvent
    \/ DemoLoopEnd
    \/ DemoSignal
    \/ DemoStopTracker
    \/ DemoFlush
    \/ DemoEndSession
    \/ DemoClose
    \/ DemoExit

(***************************************************************************)
(* The pointer pipeline: MouseTracker feeding EventBasedScreenshotTracker.  *)
(* The pynput listener thread runs the MouseTracker callback, which hands   *)
(* the emitted event to on_mouse_event and returns when that call returns;  *)
(* the next notification is delivered after that.                           *)
(***************************************************************************)
ListenerThread == "t1"

\* the raw positions of the pointer: two for moves, one for clicks
MovePositions == {<<100, 100>>, <<980, 540>>}
ClickPosition == <<500, 500>>

InitPipeline == inputs = <<>>

\* on_mouse_event reads the event with event.get: pressed "is True" (None
\* for a move), scroll deltas "or 0" (None for a move and for a click)
ToGate(e) ==
    [event_type |-> e.event_type,
     pressed |-> IF e.event_type = "click" THEN e.pressed ELSE FALSE,
     x |-> e.x, y |-> e.y, scroll_dx |-> 0, scroll_dy |-> 0]

\* _start_session: mouse_tracker.start() and screenshot_tracker.start()
PipelineStart ==
    /\ listener = "none"
    /\ ~running
    /\ listener' = "running"
    /\ running' = TRUE
    /\ UNCHANGED <<last_position, events_captured, emitted, notified>>
    /\ UNCHANGED <<screenshots_captured, last_screenshot_time,
                   scroll_accumulator_x, scroll_accumulator_y, lock,
                   pc, event, current_time, total_scroll,
                   now, calls, scroll_sum, trigger_log, capture_log, arrived, attempts>>
    /\ UNCHANGED <<outsidePipeline, pipeVars>>

\* a raw move reaches _on_move; an emitted move goes on to on_mouse_event
PipelineMove(x, y) ==
    /\ pc[ListenerThread] = "idle"
    /\ inputs' = Append(inputs, [kind |-> "move", x |-> x, y |-> y, pressed |-> FALSE])
    /\ OnMoveBody(x, y, TRUE)
    /\ IF Len(emitted') > Len(emitted)
       THEN OnMouseEventBody(ListenerThread, ToGate(MoveEvent(x, y)))
       ELSE UNCHANGED gateVars
    /\ UNCHANGED outsidePipeline

\* a raw click reaches _on_click and goes on to on_mouse_event
PipelineClick(x, y, button, pressed) ==
    /\ pc[ListenerThread] = "idle"
    /\ inputs' = Append(inputs, [kind |-> "click", x |-> x, y |-> y, pressed |-> pressed])
    /\ OnClickBody(x, y, button, pressed, TRUE)
    /\ OnMouseEventBody(ListenerThread, ToGate(ClickEvent(x, y, button, pressed)))
    /\ UNCHANGED outsidePipeline

NextPipeline ==
    \/ PipelineStart
    \/ Tick
    \/ \E m \in MovePositions : PipelineMove(m[1], m[2])
    \/ \E b \in Buttons, p \in BOOLEAN :
           PipelineClick(ClickPosition[1], ClickPosition[2], b, p)
    \/ ReadTime(ListenerThread)
    \/ CooldownAcquire(ListenerThread)
    \/ CooldownCheck(ListenerThread)
    \/ CaptureGrab(ListenerThread)
    \/ \E ok \in BOOLEAN : CaptureSave(ListenerThread, ok)

(***************************************************************************)
(* Database: one sqlite3 connection (check_same_thread=False) used by the   *)
(* threads of the recording.  A write method executes its statement, which  *)
(* puts the rows in the connection's open transaction, and then commits.    *)
(***************************************************************************)
StoreThreads == {"listener", "writer", "emotion", "coordinator", "other"}

WriteOps ==
    {"create_session", "end_session", "insert_mouse_event",
     "insert_mouse_events_batch", "insert_screenshot", "insert_audio_segment",
     "insert_emotion_event", "insert_eye_event", "insert_transcription"}

\* the write methods each thread calls: the pynput listener through
\* _on_mouse_event and _on_screenshot, the audio writer through
\* _on_audio_segment, the emotion loop through _on_emotion, the coordinator
\* in _start_session, _flush_buffer_safe and _stop_session; the remaining
\* methods have their callers outside HCILoggerWindow
CallsOf(t) ==
    CASE t = "listener" -> {"insert_mouse_events_batch", "insert_screenshot"}
      [] t = "writer" -> {"insert_audio_segment"}
      [] t = "emotion" -> {"insert_emotion_event"}
      [] t = "coordinator" -> {"create_session", "end_session",
                               "insert_mouse_events_batch"}
      [] t = "other" -> {"insert_mouse_event", "insert_eye_event",
                         "insert_transcription"}

\* the table a write method writes
TableOf(op) ==
    CASE op \in {"create_session", "end_session"} -> "sessions"
      [] op \in {"insert_mouse_event", "insert_mouse_events_batch"} -> "mouse_events"
      [] op = "insert_screenshot" -> "screenshots"
      [] op = "insert_audio_segment" -> "audio_segments"
      [] op = "insert_emotion_event" -> "emotion_events"
      [] op = "insert_eye_event" -> "eye_events"
      [] op = "insert_transcription" -> "transcriptions"

\* the write method ends with self.conn.commit()
Commits(op) == op # "insert_mouse_event"

StoreSessions == {1, 2}
NoRead == [table |-> "none", session |-> 0, rows |-> <<>>, upto |-> 0]
Stamps == {1, 2}

\* no Database object
NoStore ==
    /\ table = <<>>
    /\ call = <<>>
    /\ call_rows = <<>>
    /\ returned = {}
    /\ read_result = <<>>

\* Database.__init__ and connect(): empty tables, no call under way
InitStore ==
    /\ table = <<>>
    /\ call = [t \in StoreThreads |-> "none"]
    /\ call_rows = [t \in StoreThreads |-> {}]
    /\ returned = {}
    /\ read_result = NoRead

\* the rows of one statement: one per timestamp, not yet committed
NewRows(op, s, stamps) ==
    [i \in 1..Len(stamps) |->
        [table |-> TableOf(op), session |-> s, timestamp |-> stamps[i],
         committed |-> FALSE]]

\* a write method up to its commit: self.conn.execute (executemany for a
\* batch) adds the rows to the open transaction of the connection
StoreExecute(t, op, s, stamps) ==
    /\ call[t] = "none"
    /\ op \in CallsOf(t)
    /\ Len(stamps) = 1 \/ op = "insert_mouse_events_batch"
    /\ Len(table) + Len(stamps) <= MaxRows
    /\ table' = table \o NewRows(op, s, stamps)
    /\ call' = [call EXCEPT ![t] = op]
    /\ call_rows' = [call_rows EXCEPT ![t] = (Len(table) + 1)..(Len(table) + Len(stamps))]
    /\ UNCHANGED <<returned, read_result>>
    /\ UNCHANGED outsideStore

\* a write method from its commit to its return: self.conn.commit() commits
\* the open transaction of the connection, whichever thread's rows are in
\* it; insert_mouse_event returns without a commit
StoreReturn(t) ==
    /\ call[t] # "none"
    /\ table' = IF Commits(call[t])
                THEN [i \in 1..Len(table) |-> [table[i] EXCEPT !.committed = TRUE]]
                ELSE table
    /\ returned' = returned \cup call_rows[t]
    /\ call' = [call EXCEPT ![t] = "none"]
    /\ call_rows' = [call_rows EXCEPT ![t] = {}]
    /\ UNCHANGED read_result
    /\ UNCHANGED outsideStore

\* the tables read by get_mouse_events, get_screenshots, get_audio_segments
\* and get_emotion_events
ReadTables == {"mouse_events", "screenshots", "audio_segments", "emotion_events"}

\* WHERE session_id = ?
Where(rows, tbl, s) ==
    SelectSeq(rows, LAMBDA r : r.table = tbl /\ r.session = s)

\* rows in the order they were inserted
OrderByRowid(rows) == rows

\* a row put in its place among rows in timestamp order, after the rows of
\* the same timestamp
RECURSIVE InsertRow(_, _)
InsertRow(r, sorted) ==
    IF sorted = <<>> THEN <<r>>
    ELSE IF r.timestamp < Head(sorted).timestamp THEN <<r>> \o sorted
    ELSE <<Head(sorted)>> \o InsertRow(r, Tail(sorted))

\* ORDER BY timestamp (start_timestamp for audio_segments)
RECURSIVE OrderByTimestamp(_)
OrderByTimestamp(rows) ==
    IF rows = <<>> THEN <<>>
    ELSE InsertRow(rows[Len(rows)], OrderByTimestamp(SubSeq(rows, 1, Len(rows) - 1)))

\* get_mouse_events, get_screenshots, get_audio_segments, get_emotion_events:
\* the SELECT runs on the connection, which sees the rows of its own open
\* transaction, and fetchall() returns the rows
StoreRead(tbl, s) ==
    /\ read_result' = [table |-> tbl, session |-> s,
                       rows |-> OrderByTimestamp(Where(table, tbl, s)),
                       upto |-> Len(table)]
    /\ UNCHANGED <<table, call, call_rows, returned>>
    /\ UNCHANGED outsideStore

\* the timestamps of the rows of one statement
StampLists == {<<a>> : a \in Stamps} \cup {<<a, b>> : a, b \in Stamps}

NextStore ==
    \/ \E t \in StoreThreads, op \in WriteOps, stamps \in StampLists :
           StoreExecute(t, op, 1, stamps)
    \/ \E t \in StoreThreads : StoreReturn(t)

\* the rows of finished inserts into the tables that are read
StoredRows ==
    [table : ReadTables, session : StoreSessions, timestamp : Stamps,
     committed : {TRUE}]

\* the tables after any inserts in any order
StoredTables == UNION {[1..n -> StoredRows] : n \in 0..MaxRows}

\* a store that holds rows of earlier inserts, no write in progress
InitReads ==
    /\ table \in StoredTables
    /\ call = [t \in StoreThreads |-> "none"]
    /\ call_rows = [t \in StoreThreads |-> {}]
    /\ returned = DOMAIN table
    /\ read_result = NoRead

NextReads ==
    \E tbl \in ReadTables, s \in StoreSessions : StoreRead(tbl, s)

(***************************************************************************)
(* HeatmapOverlayGenerator.generate_all_overlays.  Time is counted in      *)
(* ticks; a frame is its file path and its timestamp, an event its         *)
(* timestamp.                                                              *)
(***************************************************************************)
MaxFrames == 2
MaxOverlayEvents == 2
Ticks == 0..2
Windows == {1, 2}
Paths == {"a", "b"}

Frames == [file_path : Paths, timestamp : Ticks]

\* no report is being generated
NoOverlay ==
    /\ screenshots = <<>>
    /\ all_events = <<>>
    /\ time_window = 1
    /\ files = {}
    /\ frame_index = 0
    /\ generated_overlays = <<>>
    /\ overlay_pc = "none"
    /\ passed = <<>>
    /\ results = <<>>

\* generate_all_overlays is called: generated_overlays = []
InitOverlay ==
    /\ screenshots \in UNION {[1..n -> Frames] : n \in 0..MaxFrames}
    /\ all_events \in UNION {[1..n -> Ticks] : n \in 0..MaxOverlayEvents}
    /\ time_window \in Windows
    /\ files \in SUBSET Paths
    /\ frame_index = 0
    /\ generated_overlays = <<>>
    /\ overlay_pc = "loop"
    /\ passed = <<>>
    /\ results = <<>>

\* the window test with both ends excluded
in_window_open(timestamp, screenshot_time, window) ==
    (screenshot_time - window) < timestamp /\ timestamp < screenshot_time

\* the test of the comprehension:
\* (screenshot_time - time_window) <= e['timestamp'] <= screenshot_time
in_window(timestamp, screenshot_time, window) ==
    (screenshot_time - window) <= timestamp /\ timestamp <= screenshot_time

\* events_in_window, as the positions in all_events of the events kept
events_in_window(screenshot_time) ==
    SelectSeq([e \in 1..Len(all_events) |-> e],
              LAMBDA e : in_window(all_events[e], screenshot_time, time_window))

\* f"overlay_{screenshot_filename}.png" under output_dir
overlay_path(screenshot) == [overlay_of |-> screenshot.file_path]

\* generate_overlay_for_screenshot: False for a missing file, False for no
\* events, False when anything in the try block raises, else True
generate_overlay_for_screenshot(screenshot, events, raises) ==
    IF screenshot.file_path \notin files THEN "missing"
    ELSE IF events = <<>> THEN "empty"
    ELSE IF raises THEN "raised"
    ELSE "ok"

\* a renderer without the except clause
propagates_raised(result) == result = "raised"

\* whether an exception leaves generate_overlay_for_screenshot: the early
\* returns return False and "except Exception" catches what the try block
\* raises
propagates(result) == FALSE

\* one turn of the loop over screenshots
OverlayFrame(raises) ==
    /\ overlay_pc = "loop"
    /\ frame_index < Len(screenshots)
    /\ LET screenshot == screenshots[frame_index + 1]
           events == events_in_window(screenshot.timestamp)
           result == generate_overlay_for_screenshot(screenshot, events, raises)
       IN /\ passed' = Append(passed, events)
          /\ results' = Append(results, result)
          /\ frame_index' = frame_index + 1
          /\ IF propagates(result)
             THEN /\ overlay_pc' = "raised"
                  /\ UNCHANGED generated_overlays
             ELSE /\ overlay_pc' = "loop"
                  /\ generated_overlays' =
                        IF result = "ok"
                        THEN Append(generated_overlays, overlay_path(screenshot))
                        ELSE generated_overlays
    /\ UNCHANGED <<screenshots, all_events, time_window, files>>
    /\ UNCHANGED outsideOverlay

\* the loop is over: return generated_overlays
OverlayReturn ==
    /\ overlay_pc = "loop"
    /\ frame_index = Len(screenshots)
    /\ overlay_pc' = "returned"
    /\ UNCHANGED <<screenshots, all_events, time_window, files, frame_index,
                   generated_overlays, passed, results>>
    /\ UNCHANGED outsideOverlay

NextOverlay ==
    \/ \E raises \in BOOLEAN : OverlayFrame(raises)
    \/ OverlayReturn

\* max_per_row as the caller passes it
max_per_row == 2

\* no figure
NoAxes == axes = <<>>

\* zip(screenshots, overlay_paths): pairs up to the shorter list
zip(left, right) ==
    [i \in 1..(IF Len(left) < Len(right) THEN Len(left) ELSE Len(right)) |->
        <<left[i], right[i]>>]

\* the cells of pair i (counted from 0): row i // max_per_row, columns
\* col_base = (i % max_per_row) * 2 and col_base + 1
OriginalCell(i) == <<i \div max_per_row, (i % max_per_row) * 2>>
OverlayCell(i) == <<i \div max_per_row, (i % max_per_row) * 2 + 1>>

\* the caller of generate_all_overlays goes on to create_comparison_grid
\* when the list returned is not empty: the original and the overlay of
\* each pair of zip(screenshots, overlay_paths) are shown side by side;
\* Image.open raises for an original whose file does not exist
CreateComparisonGrid ==
    /\ overlay_pc = "returned"
    /\ generated_overlays # <<>>
    /\ LET pairs == zip(screenshots, generated_overlays)
           cells == {OriginalCell(i - 1) : i \in DOMAIN pairs}
                        \cup {OverlayCell(i - 1) : i \in DOMAIN pairs}
       IN IF \E i \in DOMAIN pairs : pairs[i][1].file_path \notin files
          THEN /\ overlay_pc' = "grid_raised"
               /\ UNCHANGED axes
          ELSE /\ overlay_pc' = "grid"
               /\ axes' = [c \in cells |->
                     LET i == CHOOSE k \in DOMAIN pairs :
                                  c \in {OriginalCell(k - 1), OverlayCell(k - 1)}
                     IN IF c = OriginalCell(i - 1)
                        THEN [shows |-> "original", file |-> pairs[i][1].file_path]
                        ELSE [shows |-> "overlay", file |-> pairs[i][2].overlay_of]]
    /\ UNCHANGED <<screenshots, all_events, time_window, files, frame_index,
                   generated_overlays, passed, results>>
    /\ UNCHANGED outsideGrid

NextGrid ==
    \/ NextOverlay
    \/ CreateComparisonGrid

(***************************************************************************)
(* HeatmapGenerator._create_heatmap_array (the same code in                *)
(* HeatmapOverlayGenerator and in _generate_heatmap_image).  A grid maps   *)
(* <<y, x>> to a number; a quotient is kept as numerator and denominator.  *)
(***************************************************************************)
screen_width == 2
screen_height == 2
MaxPoints == 2

Cells == (0..(screen_height - 1)) \X (0..(screen_width - 1))
\* coordinates left of, inside and right of the grid
Xs == -1..screen_width
Ys == -1..screen_height
Radii == {0, 1}

Quotient(n, d) == [num |-> n, den |-> d]
\* np.zeros((self.screen_height, self.screen_width))
zeros == [c \in Cells |-> 0]
NoGrid == [c \in Cells |-> Quotient(0, 1)]

\* no heatmap is being generated
NoHeatmap ==
    /\ coordinates = <<>>
    /\ blur_radius = 0
    /\ heat_pc = "none"
    /\ points_done = 0
    /\ heatmap = <<>>
    /\ heatmap_blurred = <<>>
    /\ heatmap_returned = <<>>

\* _create_heatmap_array is called: heatmap = np.zeros(...)
InitHeat ==
    /\ coordinates \in UNION {[1..n -> Xs \X Ys] : n \in 0..MaxPoints}
    /\ blur_radius \in Radii
    /\ heat_pc = "accumulate"
    /\ points_done = 0
    /\ heatmap = zeros
    /\ heatmap_blurred = zeros
    /\ heatmap_returned = NoGrid

\* the coordinate as it is, with no clamping
unclamped(v, size) == v

\* max(0, min(v, size - 1))
clamp(v, size) ==
    LET m == IF v < size - 1 THEN v ELSE size - 1
    IN IF 0 > m THEN 0 ELSE m

\* one turn of "for x, y in coordinates": heatmap[y, x] += 1 at the clamped
\* coordinates
HeatAccumulate ==
    /\ heat_pc = "accumulate"
    /\ points_done < Len(coordinates)
    /\ LET x == clamp(coordinates[points_done + 1][1], screen_width)
           y == clamp(coordinates[points_done + 1][2], screen_height)
       IN heatmap' = [c \in Cells |->
                        IF c = <<y, x>> THEN heatmap[c] + 1 ELSE heatmap[c]]
    /\ points_done' = points_done + 1
    /\ UNCHANGED <<coordinates, blur_radius, heat_pc, heatmap_blurred,
                   heatmap_returned>>
    /\ UNCHANGED outsideHeat

\* scipy's boundary mode "reflect": the index beside the edge is the edge
reflect(i, size) == IF i < 0 THEN 0 ELSE IF i > size - 1 THEN size - 1 ELSE i

\* the weights of the kernel at distance 0 and 1, as whole numbers
weight(k) == IF k = 0 THEN 2 ELSE 1

\* gaussian_filter(heatmap, sigma): the grid itself for sigma 0, else the
\* convolution, along both axes, with a kernel of positive weights (here
\* of reach 1 and scaled to whole numbers; the scale cancels in the
\* normalization)
gaussian_filter(grid, sigma) ==
    IF sigma = 0 THEN grid
    ELSE [c \in Cells |->
            LET at(dy, dx) == weight(dy) * weight(dx) *
                    grid[<<reflect(c[1] + dy, screen_height),
                           reflect(c[2] + dx, screen_width)>>]
            IN   at(-1, -1) + at(-1, 0) + at(-1, 1)
               + at(0, -1)  + at(0, 0)  + at(0, 1)
               + at(1, -1)  + at(1, 0)  + at(1, 1)]

\* the loop is over: heatmap_blurred = gaussian_filter(heatmap, sigma=blur_radius)
HeatBlur ==
    /\ heat_pc = "accumulate"
    /\ points_done = Len(coordinates)
    /\ heatmap_blurred' = gaussian_filter(heatmap, blur_radius)
    /\ heat_pc' = "normalize"
    /\ UNCHANGED <<coordinates, blur_radius, points_done, heatmap,
                   heatmap_returned>>
    /\ UNCHANGED outsideHeat

\* grid.max()
max(grid) == CHOOSE m \in {grid[c] : c \in Cells} : \A c \in Cells : grid[c] <= m

\* a test that lets every maximum through
any_maximum(m) == TRUE

\* the test "heatmap_blurred.max() > 0"
positive_maximum(m) == m > 0

\* "if heatmap_blurred.max() > 0: heatmap_blurred = heatmap_blurred /
\* heatmap_blurred.max()", and the return
HeatNormalize ==
    /\ heat_pc = "normalize"
    /\ heatmap_returned' =
          IF positive_maximum(max(heatmap_blurred))
          THEN [c \in Cells |-> Quotient(heatmap_blurred[c], max(heatmap_blurred))]
          ELSE [c \in Cells |-> Quotient(heatmap_blurred[c], 1)]
    /\ heat_pc' = "returned"
    /\ UNCHANGED <<coordinates, blur_radius, points_done, heatmap,
                   heatmap_blurred>>
    /\ UNCHANGED outsideHeat

NextHeat ==
    \/ HeatAccumulate
    \/ HeatBlur
    \/ HeatNormalize

(***************************************************************************)
(* EmotionTracker._analyze_frame: the scores of emotion_data.  A value of  *)
(* the classifier is a number (in percent), something that is no number,   *)
(* or missing from the dict.                                               *)
(***************************************************************************)
Labels == {"angry", "disgust", "fear", "happy", "sad", "surprise", "neutral"}

Number(v) == [kind |-> "number", value |-> v]
Missing == [kind |-> "missing", value |-> 0]
NotANumber == [kind |-> "text", value |-> 0]
ClassifierValues == {Missing, NotANumber, Number(-50), Number(50), Number(150)}

\* the tracker is constructed, no frame analysed
NoScores ==
    /\ emotions = <<>>
    /\ emotion_data = <<>>
    /\ analyze_pc = "none"

\* DeepFace.analyze has returned a result with a non-empty 'emotion' dict
InitScores ==
    /\ emotions \in [Labels -> ClassifierValues]
    /\ \E l \in Labels : emotions[l] # Missing
    /\ emotion_data = [l \in Labels |-> Quotient(0, 100)]
    /\ analyze_pc = "analyzed"

\* normalize_emotion of test_emotion_normalization.py: 0.0 for None and for
\* what float() rejects, else max(0.0, min(1.0, float(value) / 100.0))
normalize_emotion(value) ==
    IF value.kind # "number" THEN Quotient(0, 100)
    ELSE LET m == IF value.value < 100 THEN value.value ELSE 100
         IN Quotient(IF 0 > m THEN 0 ELSE m, 100)

\* emotions.get(label, 0) / 100.0
score(value) ==
    IF value.kind = "missing" THEN Quotient(0, 100) ELSE Quotient(value.value, 100)

\* _analyze_frame builds emotion_data: a value that is no number makes the
\* division raise TypeError, which the except clause turns into None
AnalyzeFrame ==
    /\ analyze_pc = "analyzed"
    /\ IF \E l \in Labels : emotions[l].kind = "text"
       THEN /\ analyze_pc' = "returned_none"
            /\ UNCHANGED emotion_data
       ELSE /\ analyze_pc' = "emitted"
            /\ emotion_data' = [l \in Labels |-> score(emotions[l])]
    /\ UNCHANGED emotions
    /\ UNCHANGED outsideScore

NextScores == AnalyzeFrame

(***************************************************************************)
(* The file names of the artifacts of one session.  Time is counted in     *)
(* ticks, ticks_per_second of them to the second; cooldown is the gate's.  *)
(***************************************************************************)
ticks_per_second == 4
MaxClock == 5
\* the smallest segment_duration above 0, an int of seconds
segment_duration == ticks_per_second
Kinds == {"click", "scroll"}

\* int(timestamp)
int(timestamp) == timestamp \div ticks_per_second

\* f"screenshot_{self.session_id}_{int(timestamp)}_{trigger_event_type}.{self.format}"
screenshot_filename(timestamp, trigger_event_type) ==
    [name |-> "screenshot", second |-> int(timestamp), type |-> trigger_event_type]

\* f"audio_{self.session_id}_{int(start_time)}.wav"
audio_filename(start_time) ==
    [name |-> "audio", second |-> int(start_time), type |-> "wav"]

\* the trackers of a session are started: last_screenshot_time = 0 (long
\* before the session), segment_start_time = time.time()
InitNames ==
    /\ wall_time = 0
    /\ last_capture_time = 0 - cooldown
    /\ segment_start_time = 0
    /\ stream_open = TRUE
    /\ written = <<>>

\* no session
NoNames ==
    /\ wall_time = 0
    /\ last_capture_time = 0 - cooldown
    /\ segment_start_time = 0
    /\ stream_open = FALSE
    /\ written = <<>>

\* time passes
NameTick ==
    /\ stream_open
    /\ wall_time < MaxClock
    /\ wall_time' = wall_time + 1
    /\ UNCHANGED <<last_capture_time, segment_start_time, stream_open, written>>
    /\ UNCHANGED outsideNames

\* a trigger passes the cooldown test of _capture_on_event and
\* _capture_screenshot saves the frame under its file name
NameCapture(trigger_event_type) ==
    /\ stream_open
    /\ ~((wall_time - last_capture_time) < cooldown)
    /\ last_capture_time' = wall_time
    /\ written' = Append(written, screenshot_filename(wall_time, trigger_event_type))
    /\ UNCHANGED <<wall_time, segment_start_time, stream_open>>
    /\ UNCHANGED outsideNames

\* _audio_callback cuts a segment once segment_duration has elapsed and
\* _save_segment writes it under its file name
NameSegment ==
    /\ stream_open
    /\ wall_time - segment_start_time >= segment_duration
    /\ written' = Append(written, audio_filename(segment_start_time))
    /\ segment_start_time' = wall_time
    /\ UNCHANGED <<wall_time, last_capture_time, stream_open>>
    /\ UNCHANGED outsideNames

\* AudioTracker.stop: the stream is closed and the chunks of the open
\* segment, if any, are written as the last segment
NameStop(has_chunks) ==
    /\ stream_open
    /\ stream_open' = FALSE
    /\ written' = IF has_chunks
                  THEN Append(written, audio_filename(segment_start_time))
                  ELSE written
    /\ UNCHANGED <<wall_time, last_capture_time, segment_start_time>>
    /\ UNCHANGED outsideNames

NextNames ==
    \/ NameTick
    \/ \E trigger_event_type \in Kinds : NameCapture(trigger_event_type)
    \/ NameSegment
    \/ \E has_chunks \in BOOLEAN : NameStop(has_chunks)

NextGate ==
    \/ Tick
    \/ Start
    \/ Stop
    \/ \E t \in Threads, e \in MouseEvents : OnMouseEvent(t, e)
    \/ \E t \in Threads : AccumulateAcquire(t)
    \/ \E t \in Threads : AccumulateScroll(t)
    \/ \E t \in Threads : ReadTime(t)
    \/ \E t \in Threads : CooldownAcquire(t)
    \/ \E t \in Threads : CooldownCheck(t)
    \/ \E t \in Threads : CaptureGrab(t)
    \/ \E t \in Threads, ok \in BOOLEAN : CaptureSave(t, ok)

(***************************************************************************)
(* HCILoggerWindow over consecutive sessions: the mouse buffer and the      *)
(* listener threads of the MouseTracker of each session                     *)
(***************************************************************************)
MaxSessions == 2
MaxCaptured == 2
SessionIds == 1..MaxSessions

\* no window
NoRestart ==
    /\ logger_window = <<>>
    /\ mouse_trackers = <<>>
    /\ mouse_rows = <<>>
    /\ buffer_at_start = <<>>

\* HCILoggerWindow.__init__: no session, an empty buffer, no tracker
InitRestart ==
    /\ logger_window = [session_id |-> 0, is_recording |-> FALSE, event_buffer |-> <<>>,
                 db_open |-> FALSE, pc |-> "idle"]
    /\ mouse_trackers = [s \in SessionIds |->
            [listener |-> "none", events_captured |-> 0, pc |-> "idle",
             batch_to_write |-> <<>>]]
    /\ mouse_rows = <<>>
    /\ buffer_at_start = <<>>

\* the rows of a batch as they are inserted: each carries the session_id of
\* its event; recording is the session being recorded at that moment, 0
\* when none is
InsertedRows(batch) ==
    [i \in DOMAIN batch |->
        [session_id |-> batch[i],
         recording |-> IF logger_window.is_recording THEN logger_window.session_id ELSE 0]]

\* _start_session: db.initialize(), create_session, a new MouseTracker
\* with the new session_id is started, is_recording is set.  The buffer is
\* not touched.
RestartStartSession ==
    /\ logger_window.pc = "idle"
    /\ logger_window.session_id < MaxSessions
    /\ LET n == logger_window.session_id + 1
       IN /\ logger_window' = [logger_window EXCEPT !.session_id = n, !.is_recording = TRUE,
                                      !.db_open = TRUE, !.pc = "recording"]
          /\ mouse_trackers' = [mouse_trackers EXCEPT ![n].listener = "running"]
    /\ buffer_at_start' = Append(buffer_at_start, logger_window.event_buffer)
    /\ UNCHANGED mouse_rows
    /\ UNCHANGED outsideRestart

\* _stop_session, first part: is_recording is cleared and
\* mouse_tracker.stop() asks the listener to stop; a callback the listener
\* thread is in goes on
RestartStopTrackers ==
    /\ logger_window.pc = "recording"
    /\ logger_window' = [logger_window EXCEPT !.is_recording = FALSE, !.pc = "flush"]
    /\ mouse_trackers' =
          [mouse_trackers EXCEPT ![logger_window.session_id].listener = "stopped"]
    /\ UNCHANGED <<mouse_rows, buffer_at_start>>
    /\ UNCHANGED outsideRestart

\* _stop_session, second part: _flush_buffer_safe (the whole block runs
\* under self._buffer_lock), end_session, db.close()
RestartFlushAndClose ==
    /\ logger_window.pc = "flush"
    /\ IF logger_window.event_buffer # <<>> /\ logger_window.session_id # 0
       THEN /\ mouse_rows' = mouse_rows \o InsertedRows(logger_window.event_buffer)
            /\ logger_window' = [logger_window EXCEPT !.event_buffer = <<>>, !.db_open = FALSE,
                                        !.pc = "idle"]
       ELSE /\ logger_window' = [logger_window EXCEPT !.db_open = FALSE, !.pc = "idle"]
            /\ UNCHANGED mouse_rows
    /\ UNCHANGED <<mouse_trackers, buffer_at_start>>
    /\ UNCHANGED outsideRestart

\* the listener thread of the tracker of session s is notified and calls
\* on_event_callback with an event that carries session_id s
CallbackEnter(s) ==
    /\ mouse_trackers[s].listener = "running"
    /\ mouse_trackers[s].pc = "idle"
    /\ mouse_trackers[s].events_captured < MaxCaptured
    /\ mouse_trackers' = [mouse_trackers EXCEPT ![s].pc = "entered"]
    /\ UNCHANGED <<logger_window, mouse_rows, buffer_at_start>>
    /\ UNCHANGED outsideRestart

\* _on_mouse_event: the block under self._buffer_lock
CallbackAppend(s) ==
    /\ mouse_trackers[s].pc = "entered"
    /\ LET appended_to == Append(logger_window.event_buffer, s)
       IN IF Len(appended_to) >= BUFFER_SIZE
          THEN /\ logger_window' = [logger_window EXCEPT !.event_buffer = <<>>]
               /\ mouse_trackers' = [mouse_trackers EXCEPT
                      ![s].pc = "write", ![s].batch_to_write = appended_to]
          ELSE /\ logger_window' = [logger_window EXCEPT !.event_buffer = appended_to]
               /\ mouse_trackers' = [mouse_trackers EXCEPT ![s].pc = "write"]
    /\ UNCHANGED <<mouse_rows, buffer_at_start>>
    /\ UNCHANGED outsideRestart

\* _on_mouse_event: the write outside the lock and the return to the
\* tracker, which counts the event.  With the Database closed, self.conn is
\* None and the insert raises in the listener thread.
CallbackWrite(s) ==
    /\ mouse_trackers[s].pc = "write"
    /\ LET batch == mouse_trackers[s].batch_to_write
       IN IF batch # <<>> /\ logger_window.session_id # 0
          THEN IF logger_window.db_open
               THEN /\ mouse_rows' = mouse_rows \o InsertedRows(batch)
                    /\ mouse_trackers' = [mouse_trackers EXCEPT
                           ![s].pc = "idle", ![s].batch_to_write = <<>>,
                           ![s].events_captured = @ + 1]
               ELSE /\ mouse_trackers' = [mouse_trackers EXCEPT
                           ![s].pc = "idle", ![s].batch_to_write = <<>>,
                           ![s].listener = "stopped"]
                    /\ UNCHANGED mouse_rows
          ELSE /\ mouse_trackers' = [mouse_trackers EXCEPT
                      ![s].pc = "idle", ![s].batch_to_write = <<>>,
                      ![s].events_captured = @ + 1]
               /\ UNCHANGED mouse_rows
    /\ UNCHANGED <<logger_window, buffer_at_start>>
    /\ UNCHANGED outsideRestart

NextRestart ==
    \/ RestartStartSession
    \/ RestartStopTrackers
    \/ RestartFlushAndClose
    \/ \E s \in SessionIds : CallbackEnter(s)
    \/ \E s \in SessionIds : CallbackAppend(s)
    \/ \E s \in SessionIds : CallbackWrite(s)

(***************************************************************************)
(* AudioTracker with its clock.  Chunks are numbered in the order of        *)
(* delivery; a segment's data is the sequence of its chunks.                *)
(***************************************************************************)
MaxAudioClock == 4
MaxDelivered == 3
\* segment_duration of the tracker, in ticks of the clock
audio_segment_duration == 2

\* no tracker
NoAudio ==
    /\ audio_clock = 0
    /\ audio_tracker = <<>>
    /\ audio_writer = <<>>
    /\ delivered = 0
    /\ audio_segments = <<>>

\* AudioTracker.__init__
InitAudio ==
    /\ audio_clock = 0
    /\ audio_tracker = [running |-> FALSE, stream |-> FALSE, segment_start_time |-> 0,
                        current_segment |-> <<>>, audio_buffer |-> <<>>,
                        pc |-> "constructed"]
    /\ audio_writer = [pc |-> "none", segment_info |-> <<>>]
    /\ delivered = 0
    /\ audio_segments = <<>>

\* time passes
AudioTick ==
    /\ audio_tracker.pc # "constructed"
    /\ audio_clock < MaxAudioClock
    /\ audio_clock' = audio_clock + 1
    /\ UNCHANGED <<audio_tracker, audio_writer, delivered, audio_segments>>
    /\ UNCHANGED outsideAudio

\* start(): running, segment_start_time = time.time(), the stream and the
\* writer thread are started
AudioStart ==
    /\ audio_tracker.pc = "constructed"
    /\ audio_tracker' = [audio_tracker EXCEPT !.running = TRUE, !.stream = TRUE,
                            !.segment_start_time = audio_clock, !.pc = "started"]
    /\ audio_writer' = [audio_writer EXCEPT !.pc = "loop"]
    /\ UNCHANGED <<audio_clock, delivered, audio_segments>>
    /\ UNCHANGED outsideAudio

\* the dict put on audio_buffer
SegmentInfo(data, start_time, end_time) ==
    [data |-> data, start_time |-> start_time, end_time |-> end_time]

\* a callback that keeps the chunks of a queued segment
after_cut_kept(grown) == grown

\* _audio_callback: self.current_segment = [] after a segment is queued
after_cut(grown) == <<>>

\* _audio_callback: the chunk is appended; when segment_duration has
\* elapsed the segment is queued with end_time = time.time() and the next
\* one begun with segment_start_time = time.time(), a later reading of the
\* clock
AudioCallback(end_time, next_start) ==
    /\ audio_tracker.stream
    /\ delivered < MaxDelivered
    /\ delivered' = delivered + 1
    /\ audio_clock <= end_time /\ end_time <= next_start
    /\ LET grown == Append(audio_tracker.current_segment, delivered + 1)
           elapsed == audio_clock - audio_tracker.segment_start_time
       IN IF elapsed >= audio_segment_duration
          THEN /\ audio_tracker' = [audio_tracker EXCEPT
                      !.audio_buffer = Append(@,
                          SegmentInfo(grown, audio_tracker.segment_start_time, end_time)),
                      !.current_segment = after_cut(grown),
                      !.segment_start_time = next_start]
               /\ audio_clock' = next_start
          ELSE /\ audio_tracker' = [audio_tracker EXCEPT !.current_segment = grown]
               /\ end_time = audio_clock /\ next_start = audio_clock
               /\ UNCHANGED audio_clock
    /\ UNCHANGED <<audio_writer, audio_segments>>
    /\ UNCHANGED outsideAudio

\* stop(), steps 1 and 2: the stream is stopped and closed, and the final
\* segment is queued if current_segment holds chunks (it is not reset)
AudioStopStream ==
    /\ audio_tracker.pc = "started"
    /\ audio_tracker' = [audio_tracker EXCEPT
           !.stream = FALSE,
           !.audio_buffer =
               IF audio_tracker.current_segment # <<>>
               THEN Append(@, SegmentInfo(audio_tracker.current_segment,
                                          audio_tracker.segment_start_time, audio_clock))
               ELSE @,
           !.pc = "signal"]
    /\ UNCHANGED <<audio_clock, audio_writer, delivered, audio_segments>>
    /\ UNCHANGED outsideAudio

\* stop(), step 3: running = False; the join that follows changes nothing
AudioStopSignal ==
    /\ audio_tracker.pc = "signal"
    /\ audio_tracker' = [audio_tracker EXCEPT !.running = FALSE, !.pc = "stopped"]
    /\ UNCHANGED <<audio_clock, audio_writer, delivered, audio_segments>>
    /\ UNCHANGED outsideAudio

\* _writer_loop: a queued segment is taken
AudioWriterTake ==
    /\ audio_writer.pc = "loop"
    /\ audio_tracker.audio_buffer # <<>>
    /\ audio_writer' = [pc |-> "saving", segment_info |-> <<Head(audio_tracker.audio_buffer)>>]
    /\ audio_tracker' = [audio_tracker EXCEPT !.audio_buffer = Tail(@)]
    /\ UNCHANGED <<audio_clock, delivered, audio_segments>>
    /\ UNCHANGED outsideAudio

\* _save_segment: the file is written and on_segment_callback is called
\* with the segment
AudioWriterSave ==
    /\ audio_writer.pc = "saving"
    /\ audio_segments' = audio_segments \o audio_writer.segment_info
    /\ audio_writer' = [pc |-> "loop", segment_info |-> <<>>]
    /\ UNCHANGED <<audio_clock, audio_tracker, delivered>>
    /\ UNCHANGED outsideAudio

\* _writer_loop: the loop ends when running is false and the queue is empty
AudioWriterExit ==
    /\ audio_writer.pc = "loop"
    /\ ~audio_tracker.running
    /\ audio_tracker.audio_buffer = <<>>
    /\ audio_writer' = [audio_writer EXCEPT !.pc = "done"]
    /\ UNCHANGED <<audio_clock, audio_tracker, delivered, audio_segments>>
    /\ UNCHANGED outsideAudio

NextAudioTracker ==
    \/ AudioTick
    \/ AudioStart
    \/ \E end_time \in 0..MaxAudioClock, next_start \in 0..MaxAudioClock :
           AudioCallback(end_time, next_start)
    \/ AudioStopStream
    \/ AudioStopSignal
    \/ AudioWriterTake
    \/ AudioWriterSave
    \/ AudioWriterExit

(***************************************************************************)
(* ReportDialog._make_overlay_pixmap: the overlay the report dialog draws   *)
(* over one frame.  Sizes are <<width, height>>.                            *)
(***************************************************************************)
MaxReportEvents == 2
\* the logical screen of the session and the pixel sizes of a capture of
\* it: at scale 1 and at scale 2
LogicalSizes == {<<2, 2>>}
ImageSizes == {<<2, 2>>, <<4, 4>>}
\* the mouse_events rows: moves, pressed and released clicks, scrolls
ReportEvents ==
    [timestamp : Ticks, event_type : {"move"}, pressed : {FALSE}, x : 0..1, y : 0..1]
        \cup [timestamp : Ticks, event_type : {"click"}, pressed : BOOLEAN,
               x : 0..1, y : 0..1]
        \cup [timestamp : Ticks, event_type : {"scroll"}, pressed : {FALSE},
               x : 0..1, y : 0..1]

\* no dialog
NoDialog ==
    /\ logical_screen = <<>>
    /\ screenshot_info = <<>>
    /\ mouse_events = <<>>
    /\ pixmap_pc = "none"
    /\ drawn = <<>>

\* _build_screenshots_tab calls _make_overlay_pixmap(ss, self._mouse_events)
\* for a row of get_screenshots.  The row's width and height are those the
\* tracker stored, screenshot.width and screenshot.height of the image it
\* saved, or are missing (0).
InitDialog ==
    /\ logical_screen \in LogicalSizes
    /\ \E size \in ImageSizes, t \in Ticks, stored \in BOOLEAN :
          screenshot_info = [timestamp |-> t, image |-> size,
                             width |-> IF stored THEN size[1] ELSE 0,
                             height |-> IF stored THEN size[2] ELSE 0]
    /\ mouse_events \in UNION {[1..n -> ReportEvents] : n \in 0..MaxReportEvents}
    /\ pixmap_pc = "called"
    /\ drawn = <<>>

\* screenshot_info.get("width") or img_w
or(value, default) == IF value # 0 THEN value ELSE default

\* max(0, min(int(v), size - 1))
clip(v, size) == IF v < 0 THEN 0 ELSE IF v > size - 1 THEN size - 1 ELSE v

\* int(c * (img / screen)) for c >= 0
scaled(c, img, screen) == (c * img) \div screen

\* the events whose position is added to hm
InGrid == {e \in DOMAIN mouse_events : mouse_events[e].event_type \in {"move", "click"}}

\* the events appended to clicks
Clicks ==
    SelectSeq([e \in DOMAIN mouse_events |-> e],
              LAMBDA e : mouse_events[e].event_type = "click" /\ mouse_events[e].pressed)

\* _make_overlay_pixmap: hm of SCREEN_H x SCREEN_W counts the moves and
\* clicks of mouse_events, is smoothed, normalized and resized to the
\* image's size; each pressed click is marked at int(cx * sx), int(cy * sy)
MakeOverlayPixmap ==
    /\ pixmap_pc = "called"
    /\ LET img_w == screenshot_info.image[1]
           img_h == screenshot_info.image[2]
           SCREEN_W == or(screenshot_info.width, img_w)
           SCREEN_H == or(screenshot_info.height, img_h)
       IN drawn' =
            [canvas |-> <<SCREEN_W, SCREEN_H>>,
             hm |-> [c \in (0..(SCREEN_W - 1)) \X (0..(SCREEN_H - 1)) |->
                       Cardinality({e \in InGrid :
                           /\ clip(mouse_events[e].x, SCREEN_W) = c[1]
                           /\ clip(mouse_events[e].y, SCREEN_H) = c[2]})],
             resized_to |-> <<img_w, img_h>>,
             counted |-> InGrid,
             clicks |-> Clicks,
             markers |-> [k \in DOMAIN Clicks |->
                            <<scaled(mouse_events[Clicks[k]].x, img_w, SCREEN_W),
                              scaled(mouse_events[Clicks[k]].y, img_h, SCREEN_H)>>]]
    /\ pixmap_pc' = "rendered"
    /\ UNCHANGED <<logical_screen, screenshot_info, mouse_events>>
    /\ UNCHANGED outsideDialog

NextDialog == MakeOverlayPixmap

\* nothing but the recording and the report generation of one session
NoLater == NoRestart /\ NoAudio /\ NoAxes /\ NoDialog

InitRecording ==
    InitGate /\ InitMouse /\ InitSession /\ InitPipeline /\ InitUnit /\ InitDemo

\* no report generation under way
InitProcessing == NoOverlay /\ NoHeatmap

Init == InitRecording /\ NoStore /\ InitProcessing /\ NoScores /\ NoNames /\ NoLater

SpecGate == Init /\ [][NextGate]_vars

SpecMouse == Init /\ [][NextMouse]_vars

SpecSession == Init /\ [][NextSession]_vars

SpecPipeline == Init /\ [][NextPipeline]_vars

SpecWorkers == Init /\ [][NextWorkers]_vars

SpecPointer == Init /\ [][NextPointer]_vars

SpecTrackers == Init /\ [][NextTrackers]_vars

SpecDemo == Init /\ [][NextDemo]_vars

\* a Database and the threads that write to it
StoreInit == InitRecording /\ InitStore /\ InitProcessing /\ NoScores /\ NoNames /\ NoLater

SpecStore == StoreInit /\ [][NextStore]_vars

\* a store that holds rows, read
ReadsInit == InitRecording /\ InitReads /\ InitProcessing /\ NoScores /\ NoNames /\ NoLater

SpecReads == ReadsInit /\ [][NextReads]_vars

\* a call of generate_all_overlays
OverlayInit ==
    InitRecording /\ NoStore /\ InitOverlay /\ NoHeatmap /\ NoScores /\ NoNames /\ NoLater

SpecOverlay == OverlayInit /\ [][NextOverlay]_vars

\* generate_all_overlays and the comparison grid made of its result
SpecGrid == OverlayInit /\ [][NextGrid]_vars

\* a call of _create_heatmap_array
HeatInit ==
    InitRecording /\ NoStore /\ NoOverlay /\ InitHeat /\ NoScores /\ NoNames /\ NoLater

SpecHeat == HeatInit /\ [][NextHeat]_vars

\* a call of _analyze_frame
ScoresInit ==
    InitRecording /\ NoStore /\ InitProcessing /\ InitScores /\ NoNames /\ NoLater

SpecScores == ScoresInit /\ [][NextScores]_vars

\* the artifact files of a session
NamesInit ==
    InitRecording /\ NoStore /\ InitProcessing /\ NoScores /\ InitNames /\ NoLater

SpecNames == NamesInit /\ [][NextNames]_vars

\* a window that records one session after the other
RestartInit ==
    /\ InitRecording /\ NoStore /\ InitProcessing /\ NoScores /\ NoNames
    /\ InitRestart /\ NoAudio /\ NoAxes /\ NoDialog

SpecRestart == RestartInit /\ [][NextRestart]_vars

\* an AudioTracker from start() to the end of its writer thread
AudioInit ==
    /\ InitRecording /\ NoStore /\ InitProcessing /\ NoScores /\ NoNames
    /\ NoRestart /\ InitAudio /\ NoAxes /\ NoDialog

SpecAudioTracker == AudioInit /\ [][NextAudioTracker]_vars

\* a call of _make_overlay_pixmap
DialogInit ==
    /\ InitRecording /\ NoStore /\ InitProcessing /\ NoScores /\ NoNames
    /\ NoRestart /\ NoAudio /\ NoAxes /\ InitDialog

SpecDialog == DialogInit /\ [][NextDialog]_vars

\* the writer thread is a running thread: a step it can take is taken
SpecAudioFair ==
    /\ Init
    /\ [][NextAudio]_vars
    /\ WF_vars(WriterTake)
    /\ WF_vars(\E outcome \in {"saved", "insert_error"} : WriterSave(outcome))

(***************************************************************************)
(* Properties of the trigger gate                                           *)
(***************************************************************************)
\* a thread waiting in _capture_on_event for the lock it holds itself
Hung(t) == pc[t] = "coe_lock" /\ lock = t

\* every call of on_mouse_event has returned or can never go on
GateSettled == \A t \in Threads : pc[t] = "idle" \/ Hung(t)

FiredTriggers(kind) ==
    {i \in DOMAIN trigger_log : trigger_log[i].kind = kind /\ trigger_log[i].fired}
Dropped == {i \in DOMAIN trigger_log : ~trigger_log[i].fired}
AwaitingDecision == {t \in Threads : pc[t] \in {"coe_time", "coe_lock", "coe_check"}}

\* C1: while the tracker runs and no click has fired (no cooldown in effect),
\* once the scroll events handled sum to exactly scroll_threshold exactly
\* one capture has been fired for them and both accumulators are 0; while
\* they sum to scroll_threshold - 1 none has been fired.
C1_ScrollThresholdFiresOnce ==
    (GateSettled /\ FiredTriggers("click") = {}) =>
        /\ scroll_sum = scroll_threshold =>
              /\ Cardinality(FiredTriggers("scroll")) = 1
              /\ scroll_accumulator_x = 0
              /\ scroll_accumulator_y = 0
        /\ scroll_sum = scroll_threshold - 1 =>
              Cardinality(FiredTriggers("scroll")) = 0

\* C2: a pressed click fires a capture exactly when no earlier fired trigger
\* lies less than cooldown before it: of two clicks less than cooldown apart
\* only the first fires, of two clicks cooldown or more apart both fire.
C2_ClickCooldown ==
    \A j \in DOMAIN trigger_log :
        trigger_log[j].kind = "click" =>
            (trigger_log[j].fired <=>
                \A i \in 1..(j - 1) :
                    trigger_log[i].fired =>
                        trigger_log[j].time - trigger_log[i].time >= cooldown)

\* three clicks decided: the first fired, the second less than cooldown
\* later dropped, the third cooldown or more after the first fired
C2_Witness ==
    /\ Len(trigger_log) = 3
    /\ \A i \in 1..3 : trigger_log[i].kind = "click"
    /\ trigger_log[1].fired /\ ~trigger_log[2].fired /\ trigger_log[3].fired
    /\ trigger_log[2].time - trigger_log[1].time < cooldown
    /\ trigger_log[2].time > trigger_log[1].time
    /\ trigger_log[3].time - trigger_log[1].time > cooldown
    /\ attempts = 2

ScrollSection(t) ==
    \/ pc[t] = "acc_body"
    \/ event[t].event_type = "scroll" /\ pc[t] \in {"coe_time", "coe_lock", "coe_check"}
C4_Inv ==
    /\ \A t \in Threads : (pc[t] \in {"acc_body", "coe_check"} \/ ScrollSection(t)) => lock = t
    /\ \A t, u \in Threads :
          (t # u /\ ScrollSection(t)) => pc[u] \notin {"acc_body", "coe_check"}
InCapture(t) == pc[t] = "capture_save"

\* C12: at most one execution of _capture_screenshot is in progress at any
\* time, whatever the number of calling threads and the duration of a
\* capture.
C12_OneCaptureAtATime ==
    Cardinality({t \in Threads : InCapture(t)}) <= 1

\* C13: a capture that raises returns without calling
\* on_screenshot_callback, leaves screenshots_captured and running as they
\* were, and the calling thread is back from on_mouse_event; the count of
\* captures stays the number of callbacks made.
C13_FailureIsContained ==
    /\ [](screenshots_captured = Len(capture_log))
    /\ [][Len(capture_failures') > Len(capture_failures) =>
             /\ capture_log' = capture_log
             /\ screenshots_captured' = screenshots_captured
             /\ running' = running
             /\ \E t \in Threads : pc[t] = "capture_save" /\ pc'[t] = "idle"]_vars

\* a capture failed, the tracker is still running and a trigger at least
\* cooldown later was captured
C13_Witness ==
    /\ running
    /\ \E i \in DOMAIN capture_failures, j \in DOMAIN capture_log :
          capture_log[j].timestamp >= capture_failures[i] + cooldown

(***************************************************************************)
(* Properties of the mouse buffer and of the shutdown                       *)
(***************************************************************************)
RECURSIVE Flatten(_)
\* the rows of a sequence of batches, in order
Flatten(batches) ==
    IF batches = <<>> THEN <<>>
    ELSE Head(batches).rows \o Flatten(Tail(batches))

DrainedBy(via) == {i \in DOMAIN drained : drained[i].via = via}

MouseWrites == {w \in BagToSet(store) : w.kind = "mouse"}

\* the places of the store that hold event e
StoredAt(e) ==
    {p \in MouseWrites \X (1..BUFFER_SIZE) :
        /\ p[2] <= Len(p[1].rows)
        /\ p[1].rows[p[2]] = e}

StoredOnce(e) ==
    /\ Cardinality(StoredAt(e)) = 1
    /\ \A p \in StoredAt(e) : CopiesIn(p[1], store) = 1

\* C5: the buffer never holds _BUFFER_SIZE events after an append: the
\* append that makes it _BUFFER_SIZE long drains one batch of exactly
\* _BUFFER_SIZE events in arrival order and leaves the buffer empty, fewer
\* events drain nothing, and _flush_buffer_safe drains the whole remainder
\* as one batch; the batches drained so far followed by the buffer are the
\* appended events in arrival order.
C5_BufferDrain ==
    /\ Len(event_buffer) < BUFFER_SIZE
    /\ \A i \in DrainedBy("threshold") : Len(drained[i].rows) = BUFFER_SIZE
    /\ \A i \in DrainedBy("flush") : Len(drained[i].rows) \in 1..(BUFFER_SIZE - 1)
    /\ Cardinality(DrainedBy("flush")) <= 1
    /\ Len(appended) < BUFFER_SIZE => DrainedBy("threshold") = {}
    /\ Flatten(drained) \o event_buffer = appended
    /\ pc_listener = "write" =>
          /\ event_buffer = <<>>
          /\ Len(batch_to_write) = BUFFER_SIZE
          /\ batch_to_write = drained[Len(drained)].rows
    /\ \A w \in MouseWrites :
          /\ CopiesIn(w, store) = 1
          /\ \E i \in DOMAIN drained : drained[i] = [via |-> w.via, rows |-> w.rows]

\* _BUFFER_SIZE appends were drained and written as one batch by the
\* threshold, then _BUFFER_SIZE - 1 more were written by the forced flush
C5_Witness ==
    /\ Len(drained) = 2
    /\ drained[1] = [via |-> "threshold", rows |-> [i \in 1..BUFFER_SIZE |-> i]]
    /\ drained[2].via = "flush"
    /\ Len(drained[2].rows) = BUFFER_SIZE - 1
    /\ event_buffer = <<>>
    /\ Cardinality(MouseWrites) = 2
    /\ \A e \in 1..Len(appended) : StoredOnce(e)

\* C6: a thread about to call insert_mouse_events_batch does not hold the
\* buffer lock, on the threshold path and in the forced flush alike.
C6_WriteAfterRelease ==
    /\ pc_listener = "write" => buffer_lock # "listener"
    /\ (pc_coord = "flush_write" /\ FlushNeeded) => buffer_lock # "coord"

\* every appended event is in the store exactly once and none is in the
\* buffer
AllDrained ==
    /\ event_buffer = <<>>
    /\ \A e \in 1..Len(appended) : StoredOnce(e)

\* C7: at the moment _stop_session returns every event appended to the
\* buffer is in the store exactly once and none is left in the buffer.
C7_ShutdownDrainsAll ==
    [][(pc_coord = "close" /\ pc_coord' = "stopped") => AllDrained']_vars

\* C8: no artifact is inserted for the session after end_session has marked
\* it completed.
C8_NoArtifactAfterEnd ==
    \A w \in BagToSet(store) : ~w.late

(***************************************************************************)
(* Properties of the pointer source                                         *)
(***************************************************************************)
Moves == {i \in DOMAIN emitted : emitted[i].event_type = "move"}
ConsecutiveMoves ==
    {p \in Moves \X Moves :
        p[1] < p[2] /\ \A k \in Moves : ~(p[1] < k /\ k < p[2])}
SqDist(a, b) == (a.x - b.x) * (a.x - b.x) + (a.y - b.y) * (a.y - b.y)

\* C9: every emitted move other than the first is farther than
\* movement_threshold from the move emitted before it.
C9_MoveThrottle ==
    \A p \in ConsecutiveMoves :
        SqDist(emitted[p[1]], emitted[p[2]]) > movement_threshold * movement_threshold

\* of three raw moves two were emitted, away from the origin, and one was
\* suppressed
C9_Witness ==
    /\ ConsecutiveMoves # {}
    /\ notified.move = 3
    /\ Cardinality(Moves) = 2
    /\ events_captured = 2
    /\ \A i \in Moves : emitted[i].x > movement_threshold

Emitted(kind) == {i \in DOMAIN emitted : emitted[i].event_type = kind}

\* C10: every click and every scroll notification has invoked the callback
\* exactly once: the emitted clicks and scrolls are as many as the
\* notifications received.
C10_ClickScrollNeverThrottled ==
    /\ Cardinality(Emitted("click")) = notified.click
    /\ Cardinality(Emitted("scroll")) = notified.scroll

\* after a move, a click and a scroll at the very position of that move
\* were both emitted
C10_Witness ==
    /\ Len(emitted) = 3
    /\ emitted[1].event_type = "move"
    /\ emitted[2].event_type = "click" /\ emitted[3].event_type = "scroll"
    /\ emitted[2].x = emitted[1].x /\ emitted[2].y = emitted[1].y
    /\ emitted[3].x = emitted[1].x /\ emitted[3].y = emitted[1].y
    /\ notified.click = 1 /\ notified.scroll = 1

(***************************************************************************)
(* Properties of the pointer pipeline                                       *)
(***************************************************************************)
RawMove(x, y) == [kind |-> "move", x |-> x, y |-> y, pressed |-> FALSE]
RawClick(x, y, pressed) == [kind |-> "click", x |-> x, y |-> y, pressed |-> pressed]

\* moves at (100,100), (100,100), (980,540) on a fresh tracker
ThreeMoves == <<RawMove(100, 100), RawMove(100, 100), RawMove(980, 540)>>
ThenClick == Append(ThreeMoves, RawClick(500, 500, TRUE))

\* C11: after raw moves at (100,100), (100,100), (980,540) exactly the first
\* and the third have been emitted; after a following pressed click at
\* (500,500), once the listener is back from the callback, exactly one
\* trigger has fired and exactly one capture has been attempted, and the
\* artifact of that capture (if the capture did not raise) is the only one
\* and carries trigger_x = 500 and trigger_y = 500.
C11_EndToEnd ==
    /\ inputs = ThreeMoves =>
          emitted = <<MoveEvent(100, 100), MoveEvent(980, 540)>>
    /\ inputs = ThenClick =>
          /\ Cardinality(Moves) = 2
          /\ Cardinality(Emitted("click")) = 1
    /\ (inputs = ThenClick /\ pc[ListenerThread] = "idle") =>
          /\ Cardinality(FiredTriggers("click")) = 1
          /\ Len(trigger_log) = 1
          /\ attempts = 1
          /\ Len(capture_log) + Len(capture_failures) = 1
          /\ \A i \in DOMAIN capture_log :
                /\ capture_log[i].trigger_x = 500
                /\ capture_log[i].trigger_y = 500
                /\ capture_log[i].trigger_event_type = "click"

\* the whole scenario has run and its one artifact was produced
C11_Witness ==
    /\ inputs = ThenClick
    /\ pc[ListenerThread] = "idle"
    /\ Cardinality(Moves) = 2
    /\ Len(capture_log) = 1
    /\ capture_log[1].trigger_x = 500 /\ capture_log[1].trigger_y = 500
    /\ screenshots_captured = 1


(***************************************************************************)
(* Properties of the worker threads                                         *)
(***************************************************************************)
\* the events of a batch are still in the buffer or in a batch to be written
BatchHeld(batch) ==
    \/ batch_to_write' = batch
    \/ \A i \in 1..Len(batch) :
           \E j \in 1..Len(event_buffer') : event_buffer'[j] = batch[i]

\* the segment is still the writer's or back in the queue
SegmentHeld(segment) ==
    \/ cur_segment' = segment
    \/ \E j \in 1..Len(audio_buffer') : audio_buffer'[j] = segment

\* C14: a durable write that fails does not drop its data: when the insert
\* of a drained batch ends without a row in the store the batch is still
\* held, and when on_segment_callback ends without a row in the store the
\* segment is still held.
C14_FailedWriteKeepsData ==
    [][/\ (pc_listener = "write" /\ pc_listener' # "write" /\ store' = store)
              => BatchHeld(batch_to_write)
       /\ (Len(segments_emitted') > Len(segments_emitted) /\ store' = store)
              => SegmentHeld(cur_segment)]_vars

\* the final segment queued by stop has been handed to on_segment_callback
FinalSegmentEmitted ==
    \E i \in 1..Len(segments_emitted) : segments_emitted[i] = current_segment

C16_FailureKeepsSampling ==
    /\ [](pc_emotion = "done" => ~emotion_running)
    /\ []((pc_emotion = "loop" /\ emotion_running /\ samples < MaxSamples)
              => ENABLED EmotionPoll(TRUE))
    /\ [][emotion_failures' > emotion_failures
              => /\ pc_emotion' = "loop"
                 /\ emotion_running' = emotion_running]_vars

\* a frame is analysed after a failure, the tracker still running
C16_Witness ==
    /\ emotion_failures > 0
    /\ emotion_running
    /\ pc_emotion = "analyzing"

\* a step of a stop() call on tracker k
StopStep(k) ==
    \/ stop_calls'[k] # stop_calls[k]
    \/ k = "audio" /\ client = "idle" /\ client' = "join_audio"
    \/ k = "emotion" /\ client = "idle" /\ client' = "join_emotion"

\* C17: once a stop() of a tracker has returned, a further stop() leaves
\* the tracker's fields and its queue as they are and hands nothing to the
\* callback.
C17_StopIdempotent ==
    [][\A k \in Trackers :
           (stop_calls[k] >= 1 /\ StopStep(k))
               => /\ TrackerState(k)' = TrackerState(k)
                  /\ segments_emitted' = segments_emitted]_vars


(***************************************************************************)
(* Properties of the session stop                                           *)
(***************************************************************************)
\* C18: however often the stop of a session is entered, end_session is
\* called at most once and no call ends with an error on a closed store
\* connection.
C18_SessionStopIdempotent ==
    /\ end_sessions <= 1
    /\ demo_state # "error"


\* the coordinator is inside _stop_session
InStopSession ==
    pc_coord \in {"stop_audio", "join_audio", "stop_emotion", "join_emotion",
                  "flush_lock", "flush_write", "end_session", "close"}

\* C19: inside _stop_session the coordinator can always take its next step,
\* whatever the worker threads have done, except while it waits for
\* _buffer_lock, which is then held by the listener thread inside the with
\* block of _on_mouse_event, whose next step releases it.
C19_TeardownCannotHang ==
    InStopSession =>
        \/ ENABLED NextCoordinator
        \/ /\ pc_coord = "flush_lock"
           /\ buffer_lock = "listener"
           /\ pc_listener = "append"
           /\ ENABLED ListenerAppend

\* _stop_session has returned with the writer and the emotion loop still
\* running: both joins ended by their timeout
C19_Witness ==
    /\ pc_coord = "stopped"
    /\ pc_writer \notin {"none", "done"}
    /\ pc_emotion \notin {"none", "done"}


\* the capture sources that run
SourcesRunning ==
    {k \in Sources :
        \/ k = "pointer" /\ mouse_listening = "running"
        \/ k = "frame" /\ shot_running
        \/ k = "audio" /\ audio_running
        \/ k = "emotion" /\ emotion_running}

\* C20: when one capture source fails to start, _start_session still ends
\* with the session recording and the other three sources running, and the
\* stop that follows marks the session completed.
C20_FailedSourceIsContained ==
    /\ pc_coord # "constructed" => is_recording \/ stopping
    /\ pc_coord = "recording" => Cardinality(SourcesRunning) >= 3
    /\ pc_coord = "stopped" => session_status = "completed"


(***************************************************************************)
(* Properties of the store                                                  *)
(***************************************************************************)
\* the threads inside a write method of the Database
Writing == {t \in StoreThreads : call[t] # "none"}

\* C21: at most one thread at a time is inside a write on the shared
\* connection.
C21_WritesSerialized == Cardinality(Writing) <= 1

\* C22: the rows written by a write method that has returned are committed.
C22_CommittedAtReturn == \A i \in returned : table[i].committed


\* the rows the tables held when the last read ran
RowsAtRead == SubSeq(table, 1, read_result.upto)

\* the positions of the rows of a table and a session
Matching(rows, tbl, s) ==
    {i \in 1..Len(rows) : rows[i].table = tbl /\ rows[i].session = s}

\* a row as it was inserted, whatever has been committed since
Inserted(r) == [table |-> r.table, session |-> r.session, timestamp |-> r.timestamp]

\* how often the row v is among the rows at the given positions
Count(rows, positions, v) ==
    Cardinality({i \in positions : Inserted(rows[i]) = v})

\* C23: a read returns exactly the rows of its table and its session, each
\* as often as it was inserted, in non-decreasing timestamp order.
C23_ReadsOrderedAndScoped ==
    LET got == read_result.rows
        want == Matching(RowsAtRead, read_result.table, read_result.session)
        all == {Inserted(RowsAtRead[i]) : i \in 1..Len(RowsAtRead)}
                   \cup {Inserted(got[i]) : i \in 1..Len(got)}
    IN /\ \A i \in 1..(Len(got) - 1) : got[i].timestamp <= got[i + 1].timestamp
       /\ \A v \in all : Count(got, 1..Len(got), v) = Count(RowsAtRead, want, v)

\* a read has returned two rows of its session that were inserted in
\* decreasing timestamp order, among rows of another session
C23_Witness ==
    /\ Len(read_result.rows) >= 2
    /\ \E i, j \in 1..read_result.upto :
           /\ i < j
           /\ {i, j} \subseteq Matching(RowsAtRead, read_result.table, read_result.session)
           /\ table[i].timestamp > table[j].timestamp
    /\ \E i \in 1..read_result.upto : table[i].session # read_result.session

(***************************************************************************)
(* Properties of the pointer events' path to the store                     *)
(***************************************************************************)

\* C24: the pointer events are inserted into the store in the order in which
\* the listener emitted them (events are numbered by emission), also when
\* the flush of _stop_session runs while a batch drained by the listener
\* is not yet written
C24_EmissionOrder ==
    \A i, j \in DOMAIN inserted : i < j => inserted[i] < inserted[j]

\* a batch drained at the threshold was still unwritten while the flush of
\* _stop_session ran (the listener is stopped by then, so the batch was
\* drained before the flush took the lock) and was written after it, once
\* end_session had marked the session completed
C24_Witness ==
    /\ \E w \in BagToSet(store) :
          w.kind = "mouse" /\ w.via = "threshold" /\ w.late /\ w.rows # <<>>
    /\ Len(inserted) >= BUFFER_SIZE
    /\ pc_coord \in {"close", "stopped"}

(***************************************************************************)
(* Properties of the overlay generation                                    *)
(***************************************************************************)
\* the frame the loop took at its k-th turn
FrameAt(k) == screenshots[k]

Passed(k, e) == \E j \in DOMAIN passed[k] : passed[k][j] = e

\* C25: for every frame taken, an event is handed to the renderer exactly
\* when its timestamp t satisfies T - W <= t <= T, T the frame's timestamp
\* and W the window: events at exactly T - W and at exactly T are handed
\* over, events before T - W or after T are not; each event at most once
C25_WindowIsClosed ==
    \A k \in DOMAIN passed :
        /\ \A e \in DOMAIN all_events :
              Passed(k, e) <=>
                  /\ FrameAt(k).timestamp - time_window <= all_events[e]
                  /\ all_events[e] <= FrameAt(k).timestamp
        /\ \A i, j \in DOMAIN passed[k] : i < j => passed[k][i] < passed[k][j]

\* frames were taken for which an event at exactly T - W and one at exactly
\* T were handed over, and one before T - W and one after T were left out
C25_Witness ==
    /\ \E k \in DOMAIN passed : \E e \in DOMAIN all_events :
          Passed(k, e) /\ all_events[e] = FrameAt(k).timestamp - time_window
    /\ \E k \in DOMAIN passed : \E e \in DOMAIN all_events :
          Passed(k, e) /\ all_events[e] = FrameAt(k).timestamp
    /\ \E k \in DOMAIN passed : \E e \in DOMAIN all_events :
          ~Passed(k, e) /\ all_events[e] < FrameAt(k).timestamp - time_window
    /\ \E k \in DOMAIN passed : \E e \in DOMAIN all_events :
          ~Passed(k, e) /\ all_events[e] > FrameAt(k).timestamp

\* the frames among the first n whose rendering succeeded, in frame order
Succeeded(n) ==
    SelectSeq([k \in 1..n |-> k], LAMBDA k : results[k] = "ok")

\* C26: no failure of a frame ends the batch: the loop takes every frame,
\* and the list it has built holds, in frame order, exactly one path per
\* frame taken whose rendering succeeded; a frame whose file is missing,
\* whose selection is empty or whose rendering raised adds nothing; the
\* call returns only when every frame has been taken
C26_BatchSkipsAndContinues ==
    /\ overlay_pc \in {"none", "loop", "returned"}
    /\ Len(results) = frame_index
    /\ overlay_pc = "returned" => frame_index = Len(screenshots)
    /\ Len(generated_overlays) = Len(Succeeded(frame_index))
    /\ \A j \in DOMAIN generated_overlays :
          generated_overlays[j] = overlay_path(FrameAt(Succeeded(frame_index)[j]))
    /\ \A k \in DOMAIN results :
          results[k] = "ok" <=>
              /\ FrameAt(k).file_path \in files
              /\ passed[k] # <<>>
              /\ results[k] # "raised"

\* the call has returned after a frame that failed (its file missing, its
\* selection empty or its rendering raised) and a later frame that
\* succeeded
C26_Witness ==
    /\ overlay_pc = "returned"
    /\ \E k, l \in DOMAIN results :
          k < l /\ results[k] # "ok" /\ results[l] = "ok"
    /\ \E k \in DOMAIN results : results[k] = "raised"

(***************************************************************************)
(* Properties of the activity grid                                         *)
(***************************************************************************)
RECURSIVE SumOver(_, _)
SumOver(grid, cells) ==
    IF cells = {} THEN 0
    ELSE LET c == CHOOSE d \in cells : TRUE
         IN grid[c] + SumOver(grid, cells \ {c})

\* the total mass of a grid
Mass(grid) == SumOver(grid, Cells)

\* the cell of a point: x and y brought into the grid
CellOf(point) ==
    <<IF point[2] < 0 THEN 0
      ELSE IF point[2] > screen_height - 1 THEN screen_height - 1 ELSE point[2],
      IF point[1] < 0 THEN 0
      ELSE IF point[1] > screen_width - 1 THEN screen_width - 1 ELSE point[1]>>

\* C27: the grid of counts holds, in every cell, the number of points taken
\* so far whose clamped coordinates are that cell, so each point has added
\* 1 to exactly one cell of the grid and the total mass is the number of
\* points taken; when the loop is over (before smoothing) the mass is the
\* number of input points, whether their coordinates are in range or not
C27_MassIsEventCount ==
    /\ \A c \in Cells :
          heatmap[c] = Cardinality({i \in 1..points_done : CellOf(coordinates[i]) = c})
    /\ Mass(heatmap) = points_done
    /\ heat_pc \in {"normalize", "returned"} => Mass(heatmap) = Len(coordinates)

\* the loop is over for points left of, right of, above or below the grid
C27_Witness ==
    /\ heat_pc = "normalize"
    /\ Len(coordinates) = MaxPoints
    /\ \E i \in DOMAIN coordinates :
          coordinates[i][1] < 0 \/ coordinates[i][2] < 0
    /\ \E i \in DOMAIN coordinates :
          coordinates[i][1] > screen_width - 1 \/ coordinates[i][2] > screen_height - 1

\* C28: the grid returned has no quotient with denominator 0; when the
\* smoothed maximum is 0 (as with no input) every cell of it is 0; when the
\* smoothed maximum is positive every cell is the smoothed value over that
\* maximum, so the largest is exactly 1 and none is above 1
C28_NormalizationIsSafe ==
    heat_pc = "returned" =>
        /\ \A c \in Cells : heatmap_returned[c].den # 0
        /\ max(heatmap_blurred) = 0 =>
              \A c \in Cells : heatmap_returned[c].num = 0
        /\ coordinates = <<>> => max(heatmap_blurred) = 0
        /\ max(heatmap_blurred) > 0 =>
              /\ \A c \in Cells :
                    /\ heatmap_returned[c].num = heatmap_blurred[c]
                    /\ heatmap_returned[c].den = max(heatmap_blurred)
                    /\ heatmap_returned[c].num <= heatmap_returned[c].den
              /\ \E c \in Cells : heatmap_returned[c].num = heatmap_returned[c].den

\* a grid was returned for no input
C28_Witness ==
    /\ heat_pc = "returned"
    /\ coordinates = <<>>
    /\ blur_radius > 0

(***************************************************************************)
(* Properties of the emitted scores and of the artifact files              *)
(***************************************************************************)
\* C29: every one of the seven scores of an emitted emotion_data is the
\* classifier's value normalized as normalize_emotion does, v/100 clamped
\* to [0, 1] and 0 for a missing value, and so lies between 0 and 1
C29_ScoresClamped ==
    analyze_pc = "emitted" =>
        \A l \in Labels :
            /\ emotion_data[l] = normalize_emotion(emotions[l])
            /\ 0 <= emotion_data[l].num
            /\ emotion_data[l].num <= emotion_data[l].den

\* C30: no two artifact files written in the session have the same path
C30_PathsDistinct ==
    \A i, j \in DOMAIN written : i # j => written[i] # written[j]


(***************************************************************************)
(* Properties of the screenshot gate: locking, dropped triggers, frame     *)
(***************************************************************************)
\* C31: no call of on_mouse_event tries to acquire self.lock while its own
\* thread already holds it, so every call can return
C31_NoSelfAcquire ==
    \A t \in Threads : ~(pc[t] = "coe_lock" /\ lock = t)

\* the scroll triggers that reached scroll_threshold while the cooldown was
\* in effect and are at the cooldown gate of _capture_on_event
ScrollInCooldown ==
    {t \in Threads :
        /\ pc[t] \in {"coe_lock", "coe_check"}
        /\ event[t].event_type = "scroll"
        /\ InCooldown(current_time[t], last_screenshot_time)}

\* C32: a scroll trigger that reached scroll_threshold while the cooldown
\* is in effect finds the accumulators reset to 0 and goes on to be dropped
\* by the cooldown gate (it is not left waiting for the lock)
C32_DroppedScrollResets ==
    \A t \in ScrollInCooldown :
        /\ scroll_accumulator_x = 0
        /\ scroll_accumulator_y = 0
        /\ lock # t \/ pc[t] = "coe_check"

\* the triggers that fired in the cooldown interval opened at time f
FiredWithin(f) ==
    {i \in DOMAIN trigger_log :
        /\ trigger_log[i].fired
        /\ f <= trigger_log[i].time
        /\ trigger_log[i].time < f + cooldown}

\* C33: a failed capture keeps the cooldown it started: the failure leaves
\* last_screenshot_time as the trigger set it, and no other trigger fires
\* less than cooldown after the trigger whose capture failed
C33_FailureKeepsCooldown ==
    /\ [](\A i \in DOMAIN capture_failures :
              Cardinality(FiredWithin(capture_failures[i])) = 1)
    /\ [][Len(capture_failures') > Len(capture_failures) =>
             last_screenshot_time' = last_screenshot_time]_vars

\* the only capture attempted has failed, no artifact exists, and a later
\* trigger less than cooldown after it was dropped
C33_Witness ==
    /\ screenshots_captured = 0
    /\ \E f \in DOMAIN capture_failures, i \in Dropped :
          /\ trigger_log[i].time > capture_failures[f]
          /\ trigger_log[i].time < capture_failures[f] + cooldown
          /\ last_screenshot_time = capture_failures[f]

\* the state _accumulate_scroll and _capture_on_event work on
GateState ==
    <<scroll_accumulator_x, scroll_accumulator_y, last_screenshot_time, attempts>>

\* a pressed click or a scroll
Triggering(e) ==
    e # NoEvent /\ ((e.event_type = "click" /\ e.pressed) \/ e.event_type = "scroll")

\* C34: a call of on_mouse_event goes on past the dispatch only for a
\* pressed click or a scroll received while running is true, and the
\* accumulators, last_screenshot_time and the captures started change only
\* in such a call; any other call returns at once and changes none of them
C34_OnlyTriggersAct ==
    [][/\ \A t \in Threads :
             (pc[t] = "idle" /\ pc'[t] # "idle") =>
                 /\ running
                 /\ Triggering(event'[t])
                 /\ GateState' = GateState
       /\ calls' # calls => GateState' = GateState
       /\ GateState' # GateState =>
             \E t \in Threads : pc[t] # "idle" /\ Triggering(event[t])]_vars

\* three calls were made, two of them returned at the dispatch (a move, a
\* release or an event outside start()..stop()), and the state shows only
\* the one pressed click
C34_Witness ==
    /\ calls = MaxCalls
    /\ arrived = 1
    /\ scroll_sum = 0
    /\ \A t \in Threads : pc[t] = "idle"
    /\ screenshots_captured = 1
    /\ ~running

(***************************************************************************)
(* Properties of the move throttle                                          *)
(***************************************************************************)
\* the throttle test between two positions
Exceeds(p, q) == MoveExceeds(Abs(p[1] - q[1]), Abs(p[2] - q[2]))

\* the raw move delivered last
LastRaw(n) == n.raw[Len(n.raw)]

C36_NoLeakAcrossSessions ==
    /\ \A i \in DOMAIN buffer_at_start : buffer_at_start[i] = <<>>
    /\ \A i \in DOMAIN mouse_rows :
          mouse_rows[i].recording # 0 =>
              mouse_rows[i].session_id = mouse_rows[i].recording

(***************************************************************************)
(* Properties of the audio segments                                         *)
(***************************************************************************)
RECURSIVE Chunks(_)
\* the chunks of a sequence of segments, in order
Chunks(segments) ==
    IF segments = <<>> THEN <<>>
    ELSE Head(segments).data \o Chunks(Tail(segments))

\* every chunk delivered so far, in the order of delivery
Delivered == [i \in 1..delivered |-> i]

\* C37: the chunks delivered to _audio_callback are, each once and in the
\* order of delivery, in the segments emitted, held by the writer, queued
\* or being filled; once the writer thread has ended they are all in the
\* emitted segments; and no emitted segment begins before the one emitted
\* before it has ended
C37_ChunksConservedInOrder ==
    /\ audio_tracker.pc # "constructed" =>
          Chunks(audio_segments) \o Chunks(audio_writer.segment_info)
              \o Chunks(audio_tracker.audio_buffer)
              \o (IF audio_tracker.stream THEN audio_tracker.current_segment ELSE <<>>)
            = Delivered
    /\ audio_writer.pc = "done" => Chunks(audio_segments) = Delivered
    /\ \A i \in DOMAIN audio_segments :
          /\ audio_segments[i].start_time <= audio_segments[i].end_time
          /\ i > 1 => audio_segments[i - 1].end_time <= audio_segments[i].start_time

\* three chunks were delivered, a segment was cut by the callback and the
\* final one queued by stop(), and the writer has emitted both and ended
C37_Witness ==
    /\ audio_writer.pc = "done"
    /\ delivered = MaxDelivered
    /\ Len(audio_segments) = 2
    /\ audio_segments[1].end_time > audio_segments[1].start_time
    /\ audio_segments[2].start_time >= audio_segments[1].end_time

(***************************************************************************)
(* Properties of the comparison grid                                        *)
(***************************************************************************)
\* C38: in the comparison grid every original frame has to its right the
\* overlay generated from that same frame
C38_GridPairsSameFrame ==
    overlay_pc = "grid" =>
        \A c \in DOMAIN axes :
            axes[c].shows = "original" =>
                /\ <<c[1], c[2] + 1>> \in DOMAIN axes
                /\ axes[<<c[1], c[2] + 1>>] =
                       [shows |-> "overlay", file |-> axes[c].file]

(***************************************************************************)
(* Properties of the report dialog's overlay                                *)
(***************************************************************************)
\* C39: every event counted in the activity grid or marked as a click of
\* a frame's overlay lies in a trailing window of the frame: it is not
\* later than the frame's timestamp and not older than the window
C39_OnlyWindowEvents ==
    pixmap_pc = "rendered" =>
        \A e \in drawn.counted \cup {drawn.clicks[k] : k \in DOMAIN drawn.clicks} :
            \E w \in Windows :
                in_window(mouse_events[e].timestamp, screenshot_info.timestamp, w)

\* C40: the canvas of the overlay is the session's logical screen, and a
\* click at logical (x, y) is marked at pixel (x*img_w/W, y*img_h/H) of
\* the frame, W x H being that logical screen; the grid is resized to the
\* frame's pixel size
C40_ClicksScaledFromLogical ==
    pixmap_pc = "rendered" =>
        /\ drawn.canvas = logical_screen
        /\ drawn.resized_to = screenshot_info.image
        /\ \A k \in DOMAIN drawn.clicks :
              drawn.markers[k] =
                  <<scaled(mouse_events[drawn.clicks[k]].x,
                           screenshot_info.image[1], logical_screen[1]),
                    scaled(mouse_events[drawn.clicks[k]].y,
                           screenshot_info.image[2], logical_screen[2])>>


====
